---- MODULE Spec2Model ----
(***************************************************************************)
(* Finacco Solutions web client: the tax-assistant chat widget.            *)
(*                                                                         *)
(* Part I   - text helpers: strings are sequences of characters.           *)
(* Part II  - the session/entitlement gate: ProtectedRoute (App.tsx), the  *)
(*            gate of TaxAssistant and the credential setup (ApiKeySetup). *)
(* Part III - the conversation loop, in the revisions of the chat          *)
(*            component that the source tree holds:                        *)
(*              "TA"  src/src/components/TaxAssistant.tsx                  *)
(*              "P2"  src/unnamed/part_002                                 *)
(*              "P3"  src/unnamed/part_003                                 *)
(*              "DG"  the TaxAssistant of src/src/components/              *)
(*                    DocumentGenerator.tsx                                *)
(* Part IV  - the admin-only route: ProtectedRoute with adminOnly and the   *)
(*            sign-in form (Auth.tsx) it renders.                          *)
(* Part V   - the properties.                                              *)
(***************************************************************************)
EXTENDS Integers, Sequences, FiniteSets, TLC

VARIABLES
  \* ---- auth provider, database, page globals
  session,            \* the auth provider's current session: a user or NoUser
  storedKey,          \* table api_keys: user -> gemini_key, NoKey when no row
  rows,               \* table chat_histories: row id -> row
  windowKey,          \* window.__GEMINI_API_KEY
  now,                \* Date.now(), in milliseconds
  \* ---- ProtectedRoute
  prIsAuthenticated,  \* ProtectedRoute.isAuthenticated
  prIsLoading,        \* ProtectedRoute.isLoading
  prPc,               \* ProtectedRoute checkAuth: "getSession" | "done"
  \* ---- TaxAssistant: gate state
  isAuthenticated,
  isCheckingAuth,
  isCheckingApiKey,
  hasApiKey,
  apiKey,
  user,
  gatePc,             \* checkAuthAndApiKey: "off" | "getSession" | "lookup", then
                      \* "done" or, after an error, "failed"; checkApiKey of
                      \* part_003 also ends as "to-login" or "to-setup"
  gateUser,           \* session.user held by checkAuthAndApiKey across its await
  sessPc,             \* getSession().then of the second effect: "off" | "pending" | "done"
  \* ---- ApiKeySetup
  generating,
  setupError,
  setupPc,            \* saveApiKey: "idle" | "getSession" | "validate" | "upsert"
  setupUser,          \* session.user held by saveApiKey
  setupKey,           \* the apiKey text held by saveApiKey
  val,                \* validateApiKey: attempt, requests sent, delays slept, outcome
  \* ---- TaxAssistant: conversation state
  rev,                \* which revision of the chat component is running
  input,
  messages,
  isLoading,
  error,
  typingMessage,
  currentChatId,
  chatHistories,
  requestTimestamps,
  isDocumentMode,
  showForm,
  formFields,         \* in "DG": documentFields
  formData,           \* in "DG": collectedData
  formStep,           \* in "DG": currentFieldIndex
  formErrors,
  isGeneratingDocument,
  \* ---- handler invocations in flight
  hpc,                \* handleSubmit: where it is suspended, "idle" when none runs
  h,                  \* what the running handleSubmit closed over
  wpc,                \* document generation of the wizard: "idle" | "analyze" | "gen"
  w,                  \* what the running handleFormSubmit closed over
  histPc,             \* loadChatHistory: "idle" | "pending"
  \* ---- bookkeeping of the run
  nid,                \* source of message ids (Date.now().toString())
  budget,             \* submissions the user may still make in this run
  pool,               \* the texts the user types in this run
  vals,               \* the values the user types into wizard fields in this run
  route,              \* what happened to the latest submission
  acceptedAt,         \* the times at which submissions were accepted
  storeFailed,        \* the database has refused or lost a request in this run
  \* ---- the sidebar
  del,                \* deleteChat / clearChat in flight and what it closed over
  \* ---- the admin-only route
  adm,                \* the ProtectedRoute of the admin route: path, isAuthenticated,
                      \* isAdmin, isLoading and where its checkAuth is
  au                  \* the Auth form it renders: isLogin, isResetPassword,
                      \* isVerifying, loading, error and the handler in flight

gateVars == <<session, storedKey, windowKey, prIsAuthenticated, prIsLoading, prPc,
              isAuthenticated, isCheckingAuth, isCheckingApiKey, hasApiKey, apiKey,
              user, gatePc, gateUser, sessPc, generating, setupError, setupPc,
              setupUser, setupKey, val>>

convVars == <<input, messages, isLoading, typingMessage, currentChatId,
              requestTimestamps, isDocumentMode, showForm, formFields, formData,
              formStep, formErrors, isGeneratingDocument, hpc, h, wpc, w>>

histVars == <<error, chatHistories, histPc>>

\* handlers of the sidebar that are in flight, and the admin-only route
sideVars == <<del, adm, au>>

runVars == <<rev, sideVars, rows, now, nid, budget, pool, vals, route, acceptedAt, storeFailed>>

chatVars == <<convVars, histVars, runVars>>

vars == <<gateVars, chatVars>>

(***************************************************************************)
(* Part I.  Text                                                           *)
(***************************************************************************)

Upper == <<"A","B","C","D","E","F","G","H","I","J","K","L","M",
           "N","O","P","Q","R","S","T","U","V","W","X","Y","Z">>
Lower == <<"a","b","c","d","e","f","g","h","i","j","k","l","m",
           "n","o","p","q","r","s","t","u","v","w","x","y","z">>

\* String.prototype.toLowerCase, one character
lowerChar(c) ==
  IF \E i \in 1..26 : Upper[i] = c
    THEN Lower[CHOOSE i \in 1..26 : Upper[i] = c]
    ELSE c

toLowerCase(s) == [i \in 1..Len(s) |-> lowerChar(s[i])]

isSpace(c) == c \in {" ", "\n", "\t"}

\* String.prototype.trim
trim(s) ==
  IF \A i \in 1..Len(s) : isSpace(s[i]) THEN <<>>
  ELSE LET a == CHOOSE i \in 1..Len(s) :
                  ~isSpace(s[i]) /\ \A j \in 1..(i-1) : isSpace(s[j])
           b == CHOOSE i \in 1..Len(s) :
                  ~isSpace(s[i]) /\ \A j \in (i+1)..Len(s) : isSpace(s[j])
       IN SubSeq(s, a, b)

\* s has k at position i
hasAt(s, i, k) == i >= 1 /\ i + Len(k) - 1 <= Len(s) /\ SubSeq(s, i, i + Len(k) - 1) = k

\* String.prototype.includes
includes(s, k) == \E i \in 1..(Len(s) + 1) : hasAt(s, i, k)

\* first position >= i of s that holds no white space (Len(s)+1 when none)
skipSpace(s, i) ==
  IF \E j \in i..Len(s) : ~isSpace(s[j])
    THEN CHOOSE j \in i..Len(s) : ~isSpace(s[j]) /\ \A l \in i..(j-1) : isSpace(s[l])
    ELSE Len(s) + 1

DocVerbs == { <<"d","r","a","f","t">>, <<"c","r","e","a","t","e">>,
              <<"g","e","n","e","r","a","t","e">>, <<"w","r","i","t","e">> }

\* matches s from position i on: \s+an?\s+
articleAt(s, i) ==
  /\ i <= Len(s) /\ isSpace(s[i])
  /\ LET j == skipSpace(s, i) IN
     /\ j <= Len(s) /\ s[j] = "a"
     /\ \/ j + 1 <= Len(s) /\ isSpace(s[j+1])
        \/ j + 2 <= Len(s) /\ s[j+1] = "n" /\ isSpace(s[j+2])

\* /^(draft|create|generate|write)\s+an?\s+/i.test(s)
isDraftRequest(s) ==
  LET l == toLowerCase(s) IN
  \E v \in DocVerbs : hasAt(l, 1, v) /\ articleAt(l, Len(v) + 1)

KwCompany  == { <<"a","b","o","u","t"," ","f","i","n","a","c","c","o">>,
                <<"c","o","m","p","a","n","y"," ","i","n","f","o","r","m","a","t","i","o","n">>,
                <<"f","i","n","a","c","c","o"," ","s","o","l","u","t","i","o","n","s">> }
KwContact  == { <<"c","o","n","t","a","c","t">>, <<"p","h","o","n","e">>,
                <<"e","m","a","i","l">>, <<"a","d","d","r","e","s","s">> }
KwConnect  == { <<"t","a","l","l","y">>, <<"i","m","p","o","r","t">>,
                <<"c","o","n","n","e","c","t">>,
                <<"u","t","i","l","i","t","y"," ","s","o","f","t","w","a","r","e">> }
KwAdvisory == { <<"a","d","v","i","s","o","r","y">>,
                <<"f","i","n","a","n","c","i","a","l"," ","s","e","r","v","i","c","e","s">> }

NoAnswer == "null"

\* the canned answer for a query, NoAnswer when no keyword is in it
getFinaccoResponse(query) ==
  LET q == toLowerCase(query) IN
  IF \E k \in KwCompany : includes(q, k) THEN "About Finacco Solutions"
  ELSE IF \E k \in KwContact : includes(q, k) THEN "Contact Information"
  ELSE IF \E k \in KwConnect : includes(q, k) THEN "Finacco Connect Services"
  ELSE IF \E k \in KwAdvisory : includes(q, k) THEN "Finacco Advisory Services"
  ELSE NoAnswer

\* texts a user types
TxtDraft  == <<"d","r","a","f","t"," ","a","n"," ","i","n","v","o","i","c","e">>
TxtCreate == <<"C","r","e","a","t","e"," ","a"," ","c","o","n","t","a","c","t"," ","f","o","r","m">>
TxtPhone  == <<"p","h","o","n","e","?">>
TxtGst    == <<"g","s","t","?">>
TxtBlank  == <<" ">>

\* what happened to the latest submission
NoRoute == [txt |-> <<>>, at |-> 0, cls |-> "none", path |-> "none", apiCalls |-> 0,
            wait |-> 0, fld |-> "none", key |-> "none"]

\* the ids of the fields a wizard form can hold
FieldIds == {"title", "parties", "details", "date", "email", "note"}

\* formData = {}: every field reads as ''
NoData == [f \in FieldIds |-> <<>>]

\* no document body
NoDocument == [kind |-> "none", sections |-> <<>>]

(***************************************************************************)
(* Part II.  Session / entitlement gate                                    *)
(***************************************************************************)

NoUser == "nouser"
NoKey  == "nokey"
Users  == {"alice", "bob"}
Keys   == {"AIzaA", "AIzaB"}

RETRY_ATTEMPTS == 3
INITIAL_RETRY_DELAY == 1000
MinKeyLength == 30

\* the text of a stored key, as it is typed into the input of ApiKeySetup
KeyText(k) ==
  <<"A", "I", "z", "a">> \o [i \in 1..(MinKeyLength - 4) |-> IF k = "AIzaA" THEN "A" ELSE "B"]

\* the stored key that a typed text is
keyOf(t) == CHOOSE k \in Keys : KeyText(k) = t

\* ProtectedRoute renders its children (TaxAssistant) only in this case
Mounted == ~prIsLoading /\ prIsAuthenticated

\* The early returns of the render functions of ProtectedRoute and TaxAssistant;
\* part_003 renders the conversation unless checkApiKey has navigated away
Screen ==
  IF rev = "P3"
    THEN IF gatePc = "to-login" THEN "auth"
         ELSE IF gatePc = "to-setup" THEN "setup"
         ELSE "chat"
  ELSE IF prIsLoading THEN "pr-loading"
  ELSE IF ~prIsAuthenticated THEN "pr-auth"
  ELSE IF isCheckingAuth \/ isCheckingApiKey THEN "loading"
  ELSE IF ~isAuthenticated THEN "auth"
  ELSE IF ~hasApiKey THEN "setup"
  ELSE "chat"

\* validateApiKey has not been called
NoValidation == [attempt |-> 0, sent |-> 0, delays |-> <<>>, out |-> "none"]

\* no deleteChat or clearChat is running
NoDelete == [pc |-> "idle", chatId |-> 0, cur |-> 0, ans |-> "none"]
\* the admin route is not on screen
NoAdmin == [path |-> "/", isAuthenticated |-> FALSE, isAdmin |-> FALSE,
            isLoading |-> TRUE, pc |-> "off"]
\* the Auth form as constructed
NoAuth == [isLogin |-> TRUE, isResetPassword |-> FALSE, isVerifying |-> FALSE,
           loading |-> FALSE, error |-> FALSE, pc |-> "idle"]

NoClosure == [txt |-> <<>>, msgs |-> <<>>, chatId |-> 0, uid |-> 0, upd |-> <<>>,
              shown |-> <<>>]
NoForm == [data |-> NoData, fields |-> <<>>, ans |-> "none", doc |-> NoDocument]

\* useState / useRef initial values of the conversation
ConvInitial ==
  /\ input' = <<>>
  /\ messages' = <<>>
  /\ isLoading' = FALSE
  /\ typingMessage' = FALSE
  /\ currentChatId' = 0
  /\ requestTimestamps' = <<>>
  /\ isDocumentMode' = FALSE
  /\ showForm' = FALSE
  /\ formFields' = <<>>
  /\ formData' = NoData
  /\ formStep' = 0
  /\ formErrors' = {}
  /\ isGeneratingDocument' = FALSE
  /\ hpc' = "idle"
  /\ h' = NoClosure
  /\ wpc' = "idle"
  /\ w' = NoForm

\* useState initial values of TaxAssistant and ApiKeySetup, no effect running
Unmounted ==
  /\ isAuthenticated' = FALSE
  /\ isCheckingAuth' = TRUE
  /\ isCheckingApiKey' = TRUE
  /\ hasApiKey' = FALSE
  /\ apiKey' = NoKey
  /\ user' = NoUser
  /\ gatePc' = "off"
  /\ gateUser' = NoUser
  /\ sessPc' = "off"
  /\ generating' = FALSE
  /\ setupError' = FALSE
  /\ setupPc' = "idle"
  /\ setupUser' = NoUser
  /\ setupKey' = NoKey
  /\ val' = NoValidation
  /\ ConvInitial
  /\ error' = "none"
  /\ chatHistories' = <<>>
  /\ histPc' = "idle"

\* A fresh TaxAssistant: initial state, both mount effects started
FreshMount ==
  /\ isAuthenticated' = FALSE
  /\ isCheckingAuth' = TRUE
  /\ isCheckingApiKey' = TRUE
  /\ hasApiKey' = FALSE
  /\ apiKey' = NoKey
  /\ user' = NoUser
  /\ gatePc' = "getSession"
  /\ gateUser' = NoUser
  /\ sessPc' = "pending"
  /\ generating' = FALSE
  /\ setupError' = FALSE
  /\ setupPc' = "idle"
  /\ setupUser' = NoUser
  /\ setupKey' = NoKey
  /\ val' = NoValidation
  /\ ConvInitial
  /\ error' = "none"
  /\ chatHistories' = <<>>
  /\ histPc' = "idle"

taVars == <<isAuthenticated, isCheckingAuth, isCheckingApiKey, hasApiKey, apiKey,
            user, gatePc, gateUser, sessPc, generating, setupError, setupPc,
            setupUser, setupKey, val, convVars, histVars>>

\* Requests of an unmounted TaxAssistant still reach the backend: an upsert in
\* flight is applied or lost, a credential lookup in flight may still write the
\* page global; setState calls on the unmounted component do nothing.
OrphanEffects ==
  \/ /\ setupPc = "upsert"
     /\ storedKey' = [storedKey EXCEPT ![setupUser] = keyOf(trim(setupKey))]
     /\ windowKey' = keyOf(trim(setupKey))
  \/ /\ gatePc = "lookup"
     /\ storedKey[gateUser] # NoKey
     /\ storedKey' = storedKey
     /\ windowKey' = storedKey[gateUser]
  \/ /\ storedKey' = storedKey
     /\ windowKey' = windowKey

\* ProtectedRoute re-renders: its children mount, unmount or stay
Rerender(wasMounted, willMount, stay) ==
  IF willMount /\ ~wasMounted THEN FreshMount /\ UNCHANGED <<storedKey, windowKey>>
  ELSE IF ~willMount /\ wasMounted THEN Unmounted /\ OrphanEffects
  ELSE IF ~willMount THEN UNCHANGED taVars /\ UNCHANGED <<storedKey, windowKey>>
  ELSE stay /\ UNCHANGED <<storedKey, windowKey>>

\* onAuthStateChange callbacks of ProtectedRoute and of TaxAssistant
AuthListeners(s) ==
  /\ prIsAuthenticated' = (s # NoUser)
  /\ prIsLoading' = FALSE
  /\ Rerender(Mounted, s # NoUser,
              /\ isAuthenticated' = (s # NoUser)
              /\ user' = s
              /\ histPc' = "pending"                       \* loadChatHistory(session.user.id)
              /\ UNCHANGED <<isCheckingAuth, isCheckingApiKey, hasApiKey, apiKey,
                             gatePc, gateUser, sessPc, generating, setupError,
                             setupPc, setupUser, setupKey, val, convVars, error,
                             chatHistories>>)

\* ProtectedRoute.checkAuth resolves
PRCheckAuth ==
  /\ prPc = "getSession"
  /\ prPc' = "done"
  /\ \E ok \in BOOLEAN :
       LET auth == ok /\ session # NoUser IN
       /\ prIsAuthenticated' = auth
       /\ prIsLoading' = FALSE
       /\ Rerender(Mounted, auth, UNCHANGED taVars)
  /\ UNCHANGED <<session, runVars>>

\* Auth.handleSubmit / handleVerifyOTP obtain a session; the provider notifies
SignIn(u) ==
  /\ Screen \in {"pr-auth", "auth"}
  /\ session' = u
  /\ AuthListeners(u)
  /\ UNCHANGED <<prPc, runVars>>

\* INITIAL_SESSION / TOKEN_REFRESHED notification for the current session
AuthStateChange ==
  /\ session' = session
  /\ AuthListeners(session)
  /\ UNCHANGED <<prPc, runVars>>

\* handleSignOut, or the session ending
SignOut ==
  /\ session # NoUser
  /\ session' = NoUser
  /\ AuthListeners(NoUser)
  /\ UNCHANGED <<prPc, runVars>>

gateFinally ==
  /\ isCheckingAuth' = FALSE
  /\ isCheckingApiKey' = FALSE

\* checkAuthAndApiKey up to the credential query
CheckAuthGetSession ==
  /\ Mounted
  /\ gatePc = "getSession"
  /\ \/ /\ isAuthenticated' = (session # NoUser)          \* getSession resolved
        /\ user' = session
        /\ IF session # NoUser
             THEN /\ gatePc' = "lookup"
                  /\ gateUser' = session
                  /\ UNCHANGED <<isCheckingAuth, isCheckingApiKey>>
             ELSE /\ gatePc' = "done"
                  /\ gateUser' = NoUser
                  /\ gateFinally
     \/ /\ gatePc' = "failed"                              \* getSession threw
        /\ gateFinally
        /\ UNCHANGED <<isAuthenticated, user, gateUser>>
  /\ UNCHANGED <<session, storedKey, windowKey, prIsAuthenticated, prIsLoading, prPc,
                 hasApiKey, apiKey, sessPc, generating, setupError, setupPc,
                 setupUser, setupKey, val, chatVars>>

\* faulty variant: any answer without an error counts as a stored key
LookupFoundAnyRow(err, key) == ~err

\* !apiKeyError && apiKeyData?.gemini_key
LookupFound(err, key) == ~err /\ key # NoKey

\* checkAuthAndApiKey from the answer of the credential query to its end
CheckAuthLookup ==
  /\ Mounted
  /\ gatePc = "lookup"
  /\ gateFinally
  /\ \/ \E err \in BOOLEAN :                               \* query answered
          /\ gatePc' = IF err THEN "failed" ELSE "done"
          /\ IF LookupFound(err, storedKey[gateUser])
               THEN /\ hasApiKey' = TRUE
                    /\ apiKey' = storedKey[gateUser]
                    /\ windowKey' = storedKey[gateUser]
               ELSE UNCHANGED <<hasApiKey, apiKey, windowKey>>
     \/ /\ gatePc' = "failed"                              \* query threw
        /\ UNCHANGED <<hasApiKey, apiKey, windowKey>>
  /\ UNCHANGED <<session, storedKey, prIsAuthenticated, prIsLoading, prPc,
                 isAuthenticated, user, gateUser, sessPc, generating, setupError,
                 setupPc, setupUser, setupKey, val, chatVars>>

\* supabase.auth.getSession().then(...) of the second effect
GetSessionThen ==
  /\ Mounted
  /\ sessPc = "pending"
  /\ sessPc' = "done"
  /\ \/ /\ isAuthenticated' = (session # NoUser)
        /\ user' = session
        /\ histPc' = IF session # NoUser THEN "pending" ELSE histPc
     \/ UNCHANGED <<isAuthenticated, user, histPc>>        \* rejected
  /\ UNCHANGED <<session, storedKey, windowKey, prIsAuthenticated, prIsLoading, prPc,
                 isCheckingAuth, isCheckingApiKey, hasApiKey, apiKey, gatePc,
                 gateUser, generating, setupError, setupPc, setupUser, setupKey, val,
                 convVars, runVars, error, chatHistories>>

setupFrame == UNCHANGED <<session, prIsAuthenticated, prIsLoading, prPc,
                          isAuthenticated, isCheckingAuth, isCheckingApiKey, apiKey,
                          user, gatePc, gateUser, sessPc, chatVars>>

\* the checks of validateApiKey that need no request: !key, key.startsWith('AIza'),
\* key.length < 30
formatError(key) ==
  IF key = <<>> THEN "empty"
  ELSE IF ~hasAt(key, 1, <<"A", "I", "z", "a">>) THEN "prefix"
  ELSE IF Len(key) < MinKeyLength THEN "short"
  ELSE "none"

\* what the validation request can come to
Definitive == {"invalid", "notenabled", "billing", "permission"}
Retryable == {"unclassified", "timeout", "network"}
Outcomes == {"ok"} \cup Definitive \cup Retryable

\* faulty variant: one attempt more
mayRetryOnceMore(attempt) == attempt <= RETRY_ATTEMPTS

\* attempt < RETRY_ATTEMPTS
mayRetry(attempt) == attempt < RETRY_ATTEMPTS

\* INITIAL_RETRY_DELAY * Math.pow(2, attempt - 1)
retryDelay(attempt) == INITIAL_RETRY_DELAY * 2 ^ (attempt - 1)

\* ApiKeySetup.saveApiKey, rendered by the gate with onComplete = setHasApiKey(true);
\* t is the text in the input
SaveApiKey(t) ==
  /\ Screen = "setup"
  /\ ~generating                                           \* disabled={generating ||
  /\ trim(t) # <<>>                                        \*           !apiKey.trim()}
  /\ setupPc = "idle"
  /\ generating' = TRUE
  /\ setupError' = FALSE
  /\ setupPc' = "getSession"
  /\ setupKey' = t
  /\ val' = NoValidation
  /\ setupFrame
  /\ UNCHANGED <<storedKey, windowKey, hasApiKey, setupUser>>

\* faulty variant: the finally block is missing
saveApiKeyFailsBusy ==
  /\ setupError' = TRUE
  /\ setupPc' = "idle"
  /\ UNCHANGED <<generating, storedKey, windowKey, hasApiKey>>

\* the catch and finally blocks of saveApiKey
saveApiKeyFails ==
  /\ setupError' = TRUE
  /\ generating' = FALSE
  /\ setupPc' = "idle"
  /\ UNCHANGED <<storedKey, windowKey, hasApiKey>>

\* saveApiKey from the answer of getSession to the validation request
SaveApiKeySession ==
  /\ Mounted
  /\ setupPc = "getSession"
  /\ \/ /\ session # NoUser
        /\ setupUser' = session
        /\ IF trim(setupKey) = <<>>                         \* !trimmedApiKey
             THEN saveApiKeyFails /\ UNCHANGED val
             ELSE IF formatError(trim(setupKey)) # "none"   \* validateApiKey returns at once
             THEN /\ saveApiKeyFails
                  /\ val' = [attempt |-> 1, sent |-> 0, delays |-> <<>>,
                             out |-> formatError(trim(setupKey))]
             ELSE /\ setupPc' = "validate"                  \* fetch(apiUrl, ...)
                  /\ val' = [attempt |-> 1, sent |-> 1, delays |-> <<>>, out |-> "none"]
                  /\ UNCHANGED <<storedKey, windowKey, hasApiKey, generating, setupError>>
     \/ /\ saveApiKeyFails                                 \* sessionError / no session
        /\ UNCHANGED <<setupUser, val>>
  /\ setupFrame
  /\ UNCHANGED setupKey

\* validateApiKey from the end of its request on, and the saveApiKey that awaits it
SaveApiKeyValidate ==
  /\ Mounted
  /\ setupPc = "validate"
  /\ \E out \in Outcomes :
       IF out = "ok"
         THEN /\ setupPc' = "upsert"
              /\ val' = [val EXCEPT !.out = out]
              /\ UNCHANGED <<storedKey, windowKey, hasApiKey, generating, setupError>>
         ELSE IF out \in Retryable /\ mayRetry(val.attempt)
         THEN /\ setupPc' = "sleep"                         \* sleep(delay)
              /\ val' = [val EXCEPT !.out = out,
                                    !.delays = Append(@, retryDelay(val.attempt))]
              /\ UNCHANGED <<storedKey, windowKey, hasApiKey, generating, setupError>>
         ELSE /\ saveApiKeyFails                            \* validation.isValid false
              /\ val' = [val EXCEPT !.out = out]
  /\ setupFrame
  /\ UNCHANGED <<setupUser, setupKey>>

\* the sleep of validateApiKey ends: validateApiKey(key, attempt + 1)
ValidateRetry ==
  /\ Mounted
  /\ setupPc = "sleep"
  /\ setupPc' = "validate"
  /\ val' = [val EXCEPT !.attempt = @ + 1, !.sent = @ + 1, !.out = "none"]
  /\ setupFrame
  /\ UNCHANGED <<storedKey, windowKey, hasApiKey, generating, setupError, setupUser,
                 setupKey>>

\* saveApiKey from the answer of the upsert to its end
SaveApiKeyUpsert ==
  /\ Mounted
  /\ setupPc = "upsert"
  /\ \/ /\ storedKey' = [storedKey EXCEPT ![setupUser] = keyOf(trim(setupKey))]
        /\ windowKey' = keyOf(trim(setupKey))
        /\ hasApiKey' = TRUE                               \* onComplete()
        /\ generating' = FALSE
        /\ setupPc' = "idle"
        /\ UNCHANGED setupError
     \/ saveApiKeyFails                                    \* insertError
  /\ setupFrame
  /\ UNCHANGED <<setupUser, setupKey, val>>

(***************************************************************************)
(* The conversation list of the sidebar                                    *)
(***************************************************************************)

RECURSIVE selectDesc(_, _, _)
\* select * from chat_histories where user_id = u order by created_at desc,
\* over the rows 1..n
selectDesc(tbl, u, n) ==
  IF n = 0 THEN <<>>
  ELSE IF tbl[n].live /\ tbl[n].user_id = u
         THEN <<[id |-> n, title |-> tbl[n].title, messages |-> tbl[n].messages,
                  shown |-> tbl[n].shown]>>
                \o selectDesc(tbl, u, n - 1)
         ELSE selectDesc(tbl, u, n - 1)

\* loadChatHistory: the answer of the query arrives
LoadChatHistoryDone ==
  /\ Mounted
  /\ histPc = "pending"
  /\ histPc' = "idle"
  /\ \/ /\ user # NoUser
        /\ chatHistories' = selectDesc(rows, user, Len(rows))    \* setChatHistories(data)
        /\ UNCHANGED error
     \/ /\ error' = "history"                                    \* error thrown
        /\ UNCHANGED chatHistories
  /\ UNCHANGED <<gateVars, convVars, runVars>>

(***************************************************************************)
(* Part III.  The conversation loop                                        *)
(***************************************************************************)

RATE_LIMIT_WINDOW == 60000
MAX_REQUESTS_PER_WINDOW == 3

Undefined == "undefined"

\* the Message objects that handleSubmit and handleFormSubmit build
UserMessage(id, txt) ==
  [id |-> id, role |-> "user", content |-> txt, isDocument |-> Undefined]
AssistantMessage(id, c, doc) ==
  [id |-> id, role |-> "assistant", content |-> <<c>>, isDocument |-> doc]

\* the { role, content } objects of part_003
PlainMessage(r, c) == [role |-> r, content |-> c]

OptionalKeys == {"isDocument"}

\* JSON.stringify on the way to the store: keys holding undefined are dropped
toJson(m) ==
  [k \in {x \in DOMAIN m : x \notin OptionalKeys \/ m[x] # Undefined} |-> m[k]]

jsonList(ms) == [i \in 1..Len(ms) |-> toJson(ms[i])]

\* what a transcript shows: who said what, in order
Shown(ms) == [i \in 1..Len(ms) |-> <<ms[i].role, ms[i].content>>]

IsPrefix(s, t) == Len(s) <= Len(t) /\ SubSeq(t, 1, Len(s)) = s

\* input.length > 100 ? input.slice(0, 100) + '...' : input
saveTitle(txt) ==
  IF Len(txt) > 100 THEN SubSeq(txt, 1, 100) \o <<".", ".", ".">> ELSE txt

\* requestTimestamps.current.filter(timestamp => now - timestamp < RATE_LIMIT_WINDOW)
liveStamps(ts, t) == SelectSeq(ts, LAMBDA x : t - x < RATE_LIMIT_WINDOW)

\* Math.ceil(timeUntilReset / 60000)
minutesUntilReset(ts, t) ==
  LET timeUntilReset == RATE_LIMIT_WINDOW - (t - ts[1])
  IN (timeUntilReset + 59999) \div 60000

\* handleSubmit of part_002 and of DocumentGenerator.tsx call checkRateLimit,
\* that of TaxAssistant.tsx does not
callsCheckRateLimit(r) == r \in {"P2", "DG"}

\* faulty variant: a rejected call records its time as an accepted one does
checkRateLimitRejectsAndRecords ==
  /\ requestTimestamps' = Append(liveStamps(requestTimestamps, now), now)
  /\ error' = "rate"

\* checkRateLimit returning false: the expired timestamps are dropped and the
\* banner is set; nothing is pushed
checkRateLimitRejects ==
  /\ requestTimestamps' = liveStamps(requestTimestamps, now)
  /\ error' = "rate"

wizVars == <<isDocumentMode, showForm, formFields, formData, formStep, formErrors,
             isGeneratingDocument, wpc, w>>

\* the textarea's onChange; the textarea is disabled while isLoading
TypeInput(t) ==
  /\ Screen = "chat"
  /\ budget > 0
  /\ rev = "P3" \/ ~isLoading
  /\ input # t
  /\ input' = t
  /\ UNCHANGED <<gateVars, messages, isLoading, typingMessage, currentChatId,
                 requestTimestamps, wizVars, hpc, h, histVars, runVars>>

\* handleSubmit of TaxAssistant.tsx up to its first await
HandleSubmitTA ==
  /\ messages' = Append(messages, UserMessage(nid, input))
  /\ hpc' = "classify"                               \* checkIfDocumentRequest(input)
  \* the requests of this handler are sent with ?key=${apiKey}
  /\ route' = [NoRoute EXCEPT !.txt = input, !.at = now, !.apiCalls = 1, !.key = apiKey]
  /\ UNCHANGED <<typingMessage, isDocumentMode>>

\* handleSubmit of part_002 up to its first await
HandleSubmitP2 ==
  IF isDraftRequest(input)
    THEN /\ messages' = Append(messages, UserMessage(nid, input))
         /\ isDocumentMode' = TRUE                   \* handleDocumentRequest(input)
         /\ hpc' = "fields"
         /\ route' = [NoRoute EXCEPT !.txt = input, !.at = now, !.path = "wizard", !.apiCalls = 1]
         /\ UNCHANGED typingMessage
    ELSE IF getFinaccoResponse(input) # NoAnswer
    THEN /\ messages' = messages \o <<UserMessage(nid, input),
                  AssistantMessage(nid + 1, getFinaccoResponse(input), Undefined)>>
         /\ hpc' = "save"                            \* saveToHistory(...)
         /\ route' = [NoRoute EXCEPT !.txt = input, !.at = now, !.path = "faq"]
         /\ UNCHANGED <<typingMessage, isDocumentMode>>
    ELSE /\ messages' = Append(messages, UserMessage(nid, input))
         /\ typingMessage' = TRUE
         /\ hpc' = "reply"
         /\ route' = [NoRoute EXCEPT !.txt = input, !.at = now, !.path = "general", !.apiCalls = 1]
         /\ UNCHANGED isDocumentMode

\* the part of the closure that handleSubmit keeps across its awaits
closureOf(extra) ==
  [txt |-> input, msgs |-> messages, chatId |-> currentChatId, uid |-> nid,
   upd |-> extra, shown |-> extra]

\* handleSubmit (Send button or Enter key) of TaxAssistant.tsx and part_002
HandleSubmit ==
  /\ Screen = "chat"
  /\ rev \in {"TA", "P2"}
  /\ budget > 0
  /\ trim(input) # <<>>
  /\ ~isLoading
  /\ budget' = budget - 1
  /\ IF callsCheckRateLimit(rev)
          /\ Len(liveStamps(requestTimestamps, now)) >= MAX_REQUESTS_PER_WINDOW
       THEN /\ checkRateLimitRejects
            /\ route' = [NoRoute EXCEPT !.txt = input, !.at = now, !.path = "blocked",
                           !.wait = minutesUntilReset(requestTimestamps', now)]
            /\ UNCHANGED <<input, messages, isLoading, typingMessage, isDocumentMode,
                           hpc, h, nid, acceptedAt>>
       ELSE /\ requestTimestamps' =
                 IF callsCheckRateLimit(rev)
                   THEN Append(liveStamps(requestTimestamps, now), now)
                   ELSE requestTimestamps
            /\ isLoading' = TRUE
            /\ error' = "none"
            /\ input' = <<>>
            /\ acceptedAt' = Append(acceptedAt, now)
            /\ nid' = nid + 2
            /\ IF rev = "TA" THEN HandleSubmitTA ELSE HandleSubmitP2
            /\ h' = closureOf(messages')
  /\ UNCHANGED <<gateVars, currentChatId, showForm, formFields, formData, formStep,
                 formErrors, isGeneratingDocument, wpc, w, chatHistories, histPc,
                 rev, sideVars, rows, now, pool, vals, storeFailed>>

\* faulty variant: the handler ends without its finally block
submitFinallyMissing ==
  /\ hpc' = "idle"
  /\ UNCHANGED <<isLoading, typingMessage>>

\* the finally block of handleSubmit
submitFinally ==
  /\ isLoading' = FALSE
  /\ typingMessage' = FALSE
  /\ hpc' = "idle"

\* the finally block of handleSubmit of DocumentGenerator.tsx, and the
\* setIsLoading(false) that ends its two document branches
submitFinallyDG ==
  /\ isLoading' = FALSE
  /\ hpc' = "idle"

\* what the classification request can come back with: the label that means a
\* document ('true', 'yes' in part_003), the one that means none, another text,
\* a body without text, or a failure (rejected fetch, body without candidates)
ClassifyAnswers == {"positive", "negative", "other", "notext", "fail"}

\* checkIfDocumentRequest: text?.toLowerCase().trim() === 'true', false when caught
checkIfDocumentRequest(ans) == ans = "positive"

\* handleSubmit of TaxAssistant.tsx from the answer of checkIfDocumentRequest on
Classified ==
  /\ Mounted
  /\ rev = "TA"
  /\ hpc = "classify"
  /\ \E ans \in ClassifyAnswers :
       IF checkIfDocumentRequest(ans)
         THEN /\ isDocumentMode' = TRUE                \* handleDocumentRequest(input)
              /\ error' = "none"
              /\ hpc' = "fields"
              /\ route' = [route EXCEPT !.cls = ans, !.path = "wizard",
                                        !.apiCalls = @ + 1]
              /\ UNCHANGED <<messages, isLoading, typingMessage, nid>>
         ELSE IF getFinaccoResponse(h.txt) # NoAnswer
         THEN /\ messages' = Append(messages,
                    AssistantMessage(nid, getFinaccoResponse(h.txt), Undefined))
              /\ nid' = nid + 1
              /\ submitFinally
              /\ route' = [route EXCEPT !.cls = ans, !.path = "faq"]
              /\ UNCHANGED <<isDocumentMode, error>>
         ELSE /\ typingMessage' = TRUE
              /\ hpc' = "reply"
              /\ route' = [route EXCEPT !.cls = ans, !.path = "general",
                                        !.apiCalls = @ + 1]
              /\ UNCHANGED <<messages, isLoading, isDocumentMode, error, nid>>
  /\ UNCHANGED <<gateVars, input, currentChatId, requestTimestamps, showForm,
                 formFields, formData, formStep, formErrors, isGeneratingDocument,
                 h, wpc, w, chatHistories, histPc, rev, sideVars, rows, now, budget, pool,
                 vals, acceptedAt, storeFailed>>

\* a field of the wizard form
Field(id, type, required) == [id |-> id, type |-> type, required |-> required]

\* getDefaultFields
getDefaultFields ==
  << Field("title", "text", TRUE), Field("parties", "textarea", TRUE),
     Field("details", "textarea", TRUE), Field("date", "date", TRUE) >>

\* field lists the generative API proposes
Schemas == { << Field("email", "email", TRUE), Field("note", "text", FALSE) >> }

\* what the field-schema request can come back with: a failure (rejected
\* fetch, body without candidates or text), a text without a JSON object, a
\* JSON object that does not parse, one without a fields array, one with an
\* empty fields array, or a well-formed field list
FieldAnswers == {"fail", "nojson", "badjson", "nofields", "empty", "schema"}

\* handleDocumentRequest gives up: its catch block
documentRequestFails ==
  /\ error' = "form"
  /\ isDocumentMode' = FALSE
  /\ formFields' = <<>>
  /\ showForm' = FALSE
  /\ UNCHANGED <<messages, nid, formStep>>

\* handleDocumentRequest opens the wizard on the fields fs
documentRequestOpens(fs) ==
  /\ formFields' = fs
  /\ formStep' = IF rev = "P2" THEN 0 ELSE formStep
  /\ showForm' = TRUE
  /\ messages' = Append(messages, AssistantMessage(nid, "prompt", Undefined))
  /\ nid' = nid + 1
  /\ UNCHANGED <<error, isDocumentMode>>

\* handleDocumentRequest from the answer of the field-schema request on, and
\* the rest of the handleSubmit that awaited it
FieldsAnswered ==
  /\ Mounted
  /\ rev \in {"TA", "P2"}
  /\ hpc = "fields"
  /\ \E ans \in FieldAnswers, fs \in Schemas :
       /\ CASE ans = "schema" -> documentRequestOpens(fs)
            [] ans = "empty" ->
                 documentRequestOpens(IF rev = "TA" THEN getDefaultFields ELSE <<>>)
            [] ans = "nojson" ->
                 IF rev = "TA" THEN documentRequestOpens(getDefaultFields)
                               ELSE documentRequestFails
            [] OTHER -> documentRequestFails
       /\ route' = [route EXCEPT !.fld = ans]
  /\ submitFinally
  /\ UNCHANGED <<gateVars, input, currentChatId, requestTimestamps, formData,
                 formErrors, isGeneratingDocument, h, wpc, w, chatHistories, histPc,
                 rev, sideVars, rows, now, budget, pool, vals, acceptedAt, storeFailed>>

\* what the reply request can come back with
ReplyAnswers == {"ok", "notok", "notext", "fail"}

\* handleSubmit from the answer of the reply request up to saveToHistory
ReplyAnswered ==
  /\ Mounted
  /\ rev \in {"TA", "P2"}
  /\ hpc = "reply"
  /\ \E ans \in ReplyAnswers :
       IF ans = "ok"
         THEN /\ messages' = Append(messages, AssistantMessage(nid, "reply", Undefined))
              /\ nid' = nid + 1
              /\ h' = [h EXCEPT !.upd = h.msgs \o
                          << UserMessage(h.uid, h.txt),
                             AssistantMessage(nid, "reply", Undefined) >>,
                        !.shown = messages']
              /\ hpc' = "save"
              /\ typingMessage' = IF rev = "P2" THEN FALSE ELSE typingMessage
              /\ UNCHANGED <<isLoading, error>>
         ELSE /\ error' = "process"                      \* catch
              /\ messages' = IF rev = "P2"
                               THEN SelectSeq(messages, LAMBDA m : m.id # h.uid)
                               ELSE messages
              /\ submitFinally
              /\ UNCHANGED <<nid, h>>
  /\ UNCHANGED <<gateVars, input, currentChatId, requestTimestamps, wizVars,
                 chatHistories, histPc, rev, sideVars, rows, now, budget, pool, vals, route,
                 acceptedAt, storeFailed>>

\* a row of chat_histories
Row(u, title, ms, shown) ==
  [user_id |-> u, title |-> title, messages |-> jsonList(ms), live |-> TRUE,
   shown |-> shown]

\* saveToHistory, and the finally block of the handleSubmit that awaited it
SaveToHistory ==
  /\ Mounted
  /\ rev \in {"TA", "P2", "DG"}
  /\ hpc = "save"
  /\ \E ans \in {"ok", "dberror", "nouser"} :
       /\ IF ans = "ok" /\ session # NoUser
            THEN IF h.chatId # 0
                   THEN /\ rows' = IF h.chatId \in DOMAIN rows /\ rows[h.chatId].live
                                     THEN [rows EXCEPT ![h.chatId].messages = jsonList(h.upd),
                                                       ![h.chatId].shown = h.shown]
                                     ELSE rows
                        /\ UNCHANGED currentChatId
                   ELSE /\ rows' = Append(rows, Row(session, saveTitle(h.txt), h.upd, h.shown))
                        /\ currentChatId' = Len(rows) + 1
            ELSE UNCHANGED <<rows, currentChatId>>
       /\ histPc' = IF ans # "nouser" /\ session # NoUser THEN "pending" ELSE histPc
       /\ storeFailed' = (storeFailed \/ ans # "ok" \/ session = NoUser)
  /\ IF rev = "DG" THEN submitFinallyDG /\ UNCHANGED typingMessage ELSE submitFinally
  /\ UNCHANGED <<gateVars, input, messages, requestTimestamps, wizVars, h, error,
                 chatHistories, rev, sideVars, now, nid, budget, pool, vals, route, acceptedAt>>

\* loadChat: a conversation of the sidebar is clicked
LoadChat(i) ==
  /\ Screen = "chat"
  /\ rev \in {"TA", "P2", "DG"}
  /\ i \in DOMAIN chatHistories
  /\ typingMessage' = FALSE
  /\ messages' = chatHistories[i].messages
  /\ currentChatId' = chatHistories[i].id
  /\ UNCHANGED <<gateVars, input, isLoading, requestTimestamps, wizVars, hpc, h,
                 histVars, runVars>>

\* createNewChat: the New Chat button
CreateNewChat ==
  /\ Screen = "chat"
  /\ rev \in {"TA", "P2", "DG"}
  /\ messages # <<>> \/ currentChatId # 0
  /\ typingMessage' = FALSE
  /\ currentChatId' = 0
  /\ messages' = <<>>
  /\ error' = "none"
  /\ UNCHANGED <<gateVars, input, isLoading, requestTimestamps, wizVars, hpc, h,
                 chatHistories, histPc, runVars>>

\* deleteChat: the bin icon of a sidebar conversation is clicked; the delete
\* request is sent
DeleteChat(i) ==
  /\ Screen = "chat"
  /\ rev = "TA"
  /\ del.pc = "idle"
  /\ i \in DOMAIN chatHistories
  /\ del' = [pc |-> "delete", chatId |-> chatHistories[i].id, cur |-> currentChatId,
             ans |-> "none"]
  /\ UNCHANGED <<gateVars, convVars, histVars, rev, rows, now, nid, budget, pool, vals,
                 route, acceptedAt, storeFailed, adm, au>>

\* prev.filter(chat => chat.id !== chatId)
withoutChat(hs, chatId) == SelectSeq(hs, LAMBDA c : c.id # chatId)

\* deleteChat from the answer of the delete request to its end
DeleteChatDone ==
  /\ Mounted
  /\ del.pc = "delete"
  /\ \E ans \in {"ok", "error"} :
       /\ del' = [del EXCEPT !.pc = "idle", !.ans = ans]
       /\ IF ans = "ok"
            THEN /\ rows' = [rows EXCEPT ![del.chatId].live = FALSE]
                 /\ chatHistories' = withoutChat(chatHistories, del.chatId)
                 /\ IF del.chatId = del.cur            \* chatId === currentChatId
                      THEN currentChatId' = 0 /\ messages' = <<>>
                      ELSE UNCHANGED <<currentChatId, messages>>
                 /\ UNCHANGED <<error, storeFailed>>
            ELSE /\ error' = "delete"
                 /\ storeFailed' = TRUE
                 /\ UNCHANGED <<rows, chatHistories, currentChatId, messages>>
  /\ UNCHANGED <<gateVars, input, isLoading, typingMessage, requestTimestamps, wizVars,
                 hpc, h, histPc, rev, now, nid, budget, pool, vals, route, acceptedAt,
                 adm, au>>

\* clearChat: the Clear History button; getUser and the bulk delete are sent
ClearChat ==
  /\ Screen = "chat"
  /\ rev = "TA"
  /\ del.pc = "idle"
  /\ chatHistories # <<>> \/ messages # <<>>
  /\ del' = [pc |-> "clear", chatId |-> 0, cur |-> currentChatId, ans |-> "none"]
  /\ UNCHANGED <<gateVars, convVars, histVars, rev, rows, now, nid, budget, pool, vals,
                 route, acceptedAt, storeFailed, adm, au>>

\* the table after delete from chat_histories where user_id = u
deleteAllOf(tbl, u) ==
  [id \in DOMAIN tbl |-> IF tbl[id].user_id = u THEN [tbl[id] EXCEPT !.live = FALSE]
                                                ELSE tbl[id]]

\* clearChat from the answers of getUser and of the bulk delete to its end
ClearChatDone ==
  /\ Mounted
  /\ del.pc = "clear"
  /\ \E ans \in {"ok", "error", "nouser"} :
       /\ del' = [del EXCEPT !.pc = "idle",
                             !.ans = IF session = NoUser THEN "nouser" ELSE ans]
       /\ IF ans = "nouser" \/ session = NoUser       \* if (!user) return
            THEN UNCHANGED <<rows, messages, chatHistories, currentChatId, error,
                             storeFailed>>
            ELSE IF ans = "ok"
            THEN /\ rows' = deleteAllOf(rows, session)
                 /\ messages' = <<>>
                 /\ chatHistories' = <<>>
                 /\ currentChatId' = 0
                 /\ error' = "none"
                 /\ UNCHANGED storeFailed
            ELSE /\ error' = "clear"
                 /\ storeFailed' = TRUE
                 /\ UNCHANGED <<rows, messages, chatHistories, currentChatId>>
  /\ UNCHANGED <<gateVars, input, isLoading, typingMessage, requestTimestamps, wizVars,
                 hpc, h, histPc, rev, now, nid, budget, pool, vals, route, acceptedAt,
                 adm, au>>

\* the values a user types into wizard fields
ValEmail == <<"a", "@", "b", ".", "c", "o">>
ValDate  == <<"2", "0", "2", "4", "-", "0", "1", "-", "0", "1">>
ValBlank == <<" ", " ">>
ValLines == <<"a", "\n", "b">>
FormValues == {ValEmail, ValDate, ValBlank, ValLines}

\* data[field.id]?.trim() || '' is empty
isBlank(v) == trim(v) = <<>>

Digits == {"0", "1", "2", "3", "4", "5", "6", "7", "8", "9"}

\* /^[^\s@]+@[^\s@]+\.[^\s@]+$/.test(s)
isEmail(s) ==
  \E i \in 2..Len(s), j \in 1..(Len(s) - 1) :
    /\ s[i] = "@"
    /\ j >= i + 2
    /\ s[j] = "."
    /\ \A k \in 1..Len(s) : k # i => (~isSpace(s[k]) /\ s[k] # "@")

\* /^\+?[\d\s-()]+$/.test(s)
isTel(s) ==
  LET b == IF s # <<>> /\ s[1] = "+" THEN 2 ELSE 1 IN
  /\ b <= Len(s)
  /\ \A k \in b..Len(s) : s[k] \in Digits \/ isSpace(s[k]) \/ s[k] \in {"-", "(", ")"}

\* !isNaN(Date.parse(s)): of the values typed here the engine parses those of
\* the form YYYY-MM-DD
isDate(s) ==
  /\ Len(s) = 10
  /\ \A k \in {1, 2, 3, 4, 6, 7, 9, 10} : s[k] \in Digits
  /\ s[5] = "-" /\ s[8] = "-"

\* !isNaN(Number(s)): of the values typed here those made of digits
isNumber(s) == s # <<>> /\ \A k \in 1..Len(s) : s[k] \in Digits

\* the switch on field.type of validateForm, on the trimmed value
typeAccepts(type, v) ==
  CASE type = "email"  -> isEmail(v)
    [] type = "tel"    -> isTel(v)
    [] type = "date"   -> isDate(v)
    [] type = "number" -> isNumber(v)
    [] OTHER -> TRUE

\* faulty variant: only the required-ness of a field is tested
validateFormRequiredOnly(data, fields) ==
  { fields[i].id : i \in { j \in DOMAIN fields :
       fields[j].required /\ isBlank(data[fields[j].id]) } }

\* validateForm: the ids of the fields it reports an error for
validateForm(data, fields) ==
  { fields[i].id : i \in { j \in DOMAIN fields :
       \/ fields[j].required /\ isBlank(data[fields[j].id])
       \/ ~isBlank(data[fields[j].id])
            /\ ~typeAccepts(fields[j].type, trim(data[fields[j].id])) } }

\* Math.ceil(formFields.length / 3) - 1
lastStep(fields) == ((Len(fields) + 2) \div 3) - 1

\* handleFieldChange on a field of the page shown; a field is filled in once
HandleFieldChange(i, v) ==
  /\ Screen = "chat"
  /\ rev \in {"TA", "P2"}
  /\ showForm
  /\ i \in DOMAIN formFields
  /\ formStep = (i - 1) \div 3
  /\ formData[formFields[i].id] = <<>>
  /\ formData' = [formData EXCEPT ![formFields[i].id] = v]
  /\ formErrors' = formErrors \ {formFields[i].id}
  /\ UNCHANGED <<gateVars, input, messages, isLoading, typingMessage, currentChatId,
                 requestTimestamps, isDocumentMode, showForm, formFields, formStep,
                 isGeneratingDocument, hpc, h, wpc, w, histVars, runVars>>

\* the Next and Previous buttons of the wizard form
FormStepNext ==
  /\ Screen = "chat"
  /\ rev \in {"TA", "P2"}
  /\ showForm
  /\ formStep < lastStep(formFields)
  /\ formStep' = formStep + 1
  /\ UNCHANGED <<gateVars, input, messages, isLoading, typingMessage, currentChatId,
                 requestTimestamps, isDocumentMode, showForm, formFields, formData,
                 formErrors, isGeneratingDocument, hpc, h, wpc, w, histVars, runVars>>

FormStepPrevious ==
  /\ Screen = "chat"
  /\ rev \in {"TA", "P2"}
  /\ showForm
  /\ formStep > 0
  /\ formStep' = formStep - 1
  /\ UNCHANGED <<gateVars, input, messages, isLoading, typingMessage, currentChatId,
                 requestTimestamps, isDocumentMode, showForm, formFields, formData,
                 formErrors, isGeneratingDocument, hpc, h, wpc, w, histVars, runVars>>

\* handleFormSubmit up to its await: the Generate Document button
HandleFormSubmit ==
  /\ Screen = "chat"
  /\ rev \in {"TA", "P2"}
  /\ showForm
  /\ ~(formStep < lastStep(formFields))
  /\ ~isGeneratingDocument
  /\ formErrors' = validateForm(formData, formFields)
  /\ IF formErrors' # {}
       THEN /\ error' = "validation"
            /\ UNCHANGED <<isGeneratingDocument, wpc, w>>
       ELSE /\ isGeneratingDocument' = TRUE
            /\ error' = "none"
            /\ wpc' = "gen"
            /\ w' = [NoForm EXCEPT !.data = formData, !.fields = formFields]
  /\ UNCHANGED <<gateVars, input, messages, isLoading, typingMessage, currentChatId,
                 requestTimestamps, isDocumentMode, showForm, formFields, formData,
                 formStep, hpc, h, chatHistories, histPc, runVars>>

\* what the document request can come back with
DocumentAnswers == {"ok", "empty", "fail"}

\* the document body: generateDocument of TaxAssistant.tsx returns the AI text
\* or else the fallback template, part_002 has the AI text only
generateDocument(r, ans) ==
  IF r = "TA" /\ ans # "ok" THEN "document-template" ELSE "document-ai"

RECURSIVE split(_, _)
\* String.prototype.split
split(s, sep) ==
  IF \E i \in 1..Len(s) : s[i] = sep
    THEN LET i == CHOOSE i \in 1..Len(s) : s[i] = sep /\ \A j \in 1..(i - 1) : s[j] # sep
         IN <<SubSeq(s, 1, i - 1)>> \o split(SubSeq(s, i + 1, Len(s)), sep)
    ELSE <<s>>

\* a section of the fallback template: a heading for the key, then one
\* paragraph for each line of the value
Section(key, value) == [key |-> key, paras |-> split(value, "\n")]

\* the keys of the submitted data, in an order (Object.entries lists them in
\* the order in which the fields were first typed into, which is not kept here)
FieldOrder == <<"title", "parties", "details", "date", "email", "note">>

\* faulty variant: the sections of the template are emitted twice
generateFallbackDocumentTwice(data) ==
  LET keys == SelectSeq(FieldOrder, LAMBDA f : data[f] # <<>>)
      once == [i \in 1..Len(keys) |-> Section(keys[i], data[keys[i]])]
  IN once \o once

\* generateFallbackDocument: the sections between the header and the
\* signature block, one for each entry of data with a non-empty value
generateFallbackDocument(data) ==
  LET keys == SelectSeq(FieldOrder, LAMBDA f : data[f] # <<>>)
  IN [i \in 1..Len(keys) |-> Section(keys[i], data[keys[i]])]

\* documentContent of handleFormSubmit: which body it is and, for the fallback
\* template, its sections
documentContent(r, ans, data) ==
  [kind |-> generateDocument(r, ans),
   sections |-> IF generateDocument(r, ans) = "document-template"
                  THEN generateFallbackDocument(data) ELSE <<>>]

\* does handleFormSubmit get a document body for this answer
documentProduced(r, ans) == IF r = "TA" THEN TRUE ELSE ans # "fail"

\* handleFormSubmit from the answer of the document request on
DocumentAnswered ==
  /\ Mounted
  /\ rev \in {"TA", "P2"}
  /\ wpc = "gen"
  /\ wpc' = "idle"
  /\ isGeneratingDocument' = FALSE
  /\ \E ans \in DocumentAnswers :
       IF documentProduced(rev, ans)
         THEN /\ messages' = Append(messages,
                   AssistantMessage(nid, generateDocument(rev, ans), "true"))
              /\ w' = [w EXCEPT !.ans = ans, !.doc = documentContent(rev, ans, w.data)]
              /\ nid' = nid + 1
              /\ isDocumentMode' = FALSE
              /\ showForm' = FALSE
              /\ formFields' = <<>>
              /\ formData' = NoData
              /\ formStep' = 0
              /\ formErrors' = {}
              /\ UNCHANGED error
         ELSE /\ error' = "generate"
              /\ w' = [w EXCEPT !.ans = ans]
              /\ UNCHANGED <<messages, nid, isDocumentMode, showForm, formFields,
                             formData, formStep, formErrors>>
  /\ UNCHANGED <<gateVars, input, isLoading, typingMessage, currentChatId,
                 requestTimestamps, hpc, h, chatHistories, histPc, rev, sideVars, rows, now,
                 budget, pool, vals, route, acceptedAt, storeFailed>>

(***************************************************************************)
(* The revision of part_003                                                *)
(***************************************************************************)

NewChatTitle == <<"N", "e", "w", " ", "C", "h", "a", "t">>

\* newMessages[0]?.content.slice(0, 50) || 'New Chat'
updateTitle(ms) ==
  IF ms = <<>> \/ ms[1].content = <<>> THEN NewChatTitle
  ELSE SubSeq(ms[1].content, 1, IF Len(ms[1].content) < 50 THEN Len(ms[1].content) ELSE 50)

\* updateChatHistory: the table after the update request
updateChatHistory(tbl, chatId, ms, shown, ok) ==
  IF ok /\ chatId \in DOMAIN tbl /\ tbl[chatId].live
    THEN [tbl EXCEPT ![chatId].messages = jsonList(ms),
                     ![chatId].title = updateTitle(ms),
                     ![chatId].shown = shown]
    ELSE tbl

\* handleSubmit of part_003 up to its first await
HandleSubmitP3 ==
  /\ Screen = "chat"
  /\ rev = "P3"
  /\ budget > 0
  /\ trim(input) # <<>>
  /\ ~isLoading
  /\ budget' = budget - 1
  /\ input' = <<>>
  /\ isLoading' = TRUE
  /\ acceptedAt' = Append(acceptedAt, now)
  /\ route' = [NoRoute EXCEPT !.txt = trim(input), !.at = now]
  \* setCurrentUserMessage: a DocumentRequestHandler on screen analyses the new text
  /\ wpc' = IF showForm /\ apiKey # NoKey /\ h.txt # trim(input) THEN "analyze" ELSE wpc
  /\ IF currentChatId = 0
       THEN /\ hpc' = "create"                         \* createNewChat()
            /\ h' = [NoClosure EXCEPT !.txt = trim(input), !.msgs = messages]
            /\ UNCHANGED messages
       ELSE /\ messages' = Append(messages, PlainMessage("user", trim(input)))
            /\ hpc' = "update1"                        \* updateChatHistory(...)
            /\ h' = [NoClosure EXCEPT !.txt = trim(input), !.msgs = messages,
                       !.chatId = currentChatId, !.upd = messages', !.shown = messages']
  /\ UNCHANGED <<gateVars, typingMessage, currentChatId, requestTimestamps,
                 isDocumentMode, showForm, formFields, formData, formStep, formErrors,
                 isGeneratingDocument, w, histVars, rev, sideVars, rows, now, nid, pool, vals,
                 storeFailed>>

\* createNewChat answers; handleSubmit goes on to the classification request
ChatCreatedP3 ==
  /\ Mounted
  /\ rev = "P3"
  /\ hpc = "create"
  /\ \E ok \in BOOLEAN :
       IF ok /\ session # NoUser
         THEN /\ rows' = Append(rows, [user_id |-> session, title |-> NewChatTitle,
                                       messages |-> <<>>, live |-> TRUE, shown |-> <<>>])
              /\ currentChatId' = Len(rows) + 1
              /\ UNCHANGED storeFailed
         ELSE /\ currentChatId' = 0                    \* setCurrentChatId(null)
              /\ storeFailed' = TRUE
              /\ UNCHANGED rows
  /\ messages' = Append(h.msgs, PlainMessage("user", h.txt))
  /\ h' = [h EXCEPT !.upd = messages', !.shown = messages']
  /\ hpc' = "classify"
  /\ route' = [route EXCEPT !.apiCalls = @ + 1]
  /\ UNCHANGED <<gateVars, input, isLoading, typingMessage, requestTimestamps, wizVars,
                 histVars, rev, sideVars, now, nid, budget, pool, vals, acceptedAt>>

\* the first updateChatHistory answers; the classification request is sent
FirstUpdateP3 ==
  /\ Mounted
  /\ rev = "P3"
  /\ hpc = "update1"
  /\ \E ok \in BOOLEAN :
       /\ rows' = updateChatHistory(rows, h.chatId, h.upd, h.shown, ok)
       /\ storeFailed' = (storeFailed \/ ~ok)
  /\ hpc' = "classify"
  /\ route' = [route EXCEPT !.apiCalls = @ + 1]
  /\ UNCHANGED <<gateVars, input, messages, isLoading, typingMessage, currentChatId,
                 requestTimestamps, wizVars, h, histVars, rev, sideVars, now, nid, budget, pool,
                 vals, acceptedAt>>

\* the catch block of handleSubmit of part_003, up to its updateChatHistory
submitCatchP3 ==
  /\ messages' = Append(h.msgs, PlainMessage("assistant", <<"sorry-error">>))
  /\ IF h.chatId # 0
       THEN /\ hpc' = "update"
            /\ h' = [h EXCEPT !.upd = messages', !.shown = messages']
            /\ UNCHANGED isLoading
       ELSE /\ hpc' = "idle"
            /\ isLoading' = FALSE
            /\ UNCHANGED h

\* documentData.candidates[0]?...?.text?.toLowerCase().trim() === 'yes'
isDocumentRequestP3(ans) == ans = "positive"

\* handleSubmit of part_003 from the answer of the classification request on
ClassifiedP3 ==
  /\ Mounted
  /\ rev = "P3"
  /\ hpc = "classify"
  /\ \E ans \in ClassifyAnswers :
       IF ans = "fail"
         THEN /\ submitCatchP3
              /\ route' = [route EXCEPT !.cls = ans, !.path = "aborted"]
              /\ UNCHANGED <<showForm, wpc>>
         ELSE IF isDocumentRequestP3(ans)
         THEN /\ showForm' = TRUE                       \* setShowDocumentForm(true)
              \* DocumentRequestHandler mounts and runs analyzeRequest
              /\ wpc' = IF ~showForm /\ apiKey # NoKey THEN "analyze" ELSE wpc
              /\ hpc' = "idle"
              /\ isLoading' = FALSE
              /\ route' = [route EXCEPT !.cls = ans, !.path = "wizard"]
              /\ UNCHANGED <<messages, h>>
         ELSE /\ hpc' = "reply"
              /\ route' = [route EXCEPT !.cls = ans, !.path = "general",
                                        !.apiCalls = @ + 1]
              /\ UNCHANGED <<messages, isLoading, h, showForm, wpc>>
  /\ UNCHANGED <<gateVars, input, typingMessage, currentChatId, requestTimestamps,
                 isDocumentMode, formFields, formData, formStep, formErrors,
                 isGeneratingDocument, w, histVars, rev, sideVars, rows, now, nid, budget, pool,
                 vals, acceptedAt, storeFailed>>

\* handleSubmit of part_003 from the answer of the reply request on
ReplyAnsweredP3 ==
  /\ Mounted
  /\ rev = "P3"
  /\ hpc = "reply"
  /\ \E ans \in ReplyAnswers :
       IF ans \in {"ok", "notext"}
         THEN /\ messages' = Append(h.upd, PlainMessage("assistant",
                     IF ans = "ok" THEN <<"reply">> ELSE <<"sorry-no-response">>))
              /\ IF h.chatId # 0
                   THEN /\ hpc' = "update"
                        /\ h' = [h EXCEPT !.upd = messages', !.shown = messages']
                        /\ UNCHANGED isLoading
                   ELSE /\ hpc' = "idle"
                        /\ isLoading' = FALSE
                        /\ UNCHANGED h
         ELSE submitCatchP3
  /\ UNCHANGED <<gateVars, input, typingMessage, currentChatId, requestTimestamps,
                 wizVars, histVars, runVars>>

\* the last updateChatHistory of handleSubmit answers; its finally block
LastUpdateP3 ==
  /\ Mounted
  /\ rev = "P3"
  /\ hpc = "update"
  /\ \E ok \in BOOLEAN :
       /\ rows' = updateChatHistory(rows, h.chatId, h.upd, h.shown, ok)
       /\ storeFailed' = (storeFailed \/ ~ok)
  /\ hpc' = "idle"
  /\ isLoading' = FALSE
  /\ UNCHANGED <<gateVars, input, messages, typingMessage, currentChatId,
                 requestTimestamps, wizVars, h, histVars, rev, sideVars, now, nid, budget, pool,
                 vals, route, acceptedAt>>

\* what analyzeRequest can get: a known document type, another label, "none",
\* a body without text, or a failure
AnalyzeAnswers == {"invoice", "label", "none", "notext", "fail"}

\* DocumentRequestHandler.analyzeRequest from the answer of its request on
RequestAnalyzed ==
  /\ Mounted
  /\ rev = "P3"
  /\ wpc = "analyze"
  /\ wpc' = "idle"
  /\ \E ans \in AnalyzeAnswers :
       CASE ans \in {"invoice", "label"} ->
              /\ isDocumentMode' = TRUE                 \* setDocumentType(documentType)
              /\ UNCHANGED error
         [] ans \in {"none", "notext"} ->
              /\ error' = "not-a-document"
              /\ UNCHANGED isDocumentMode
         [] OTHER ->
              /\ error' = "analyze"
              /\ UNCHANGED isDocumentMode
  /\ UNCHANGED <<gateVars, input, messages, isLoading, typingMessage, currentChatId,
                 requestTimestamps, showForm, formFields, formData, formStep,
                 formErrors, isGeneratingDocument, hpc, h, w, chatHistories, histPc,
                 runVars>>

\* DocumentGenerator.handleSubmit: the form of the local templates is submitted;
\* on success handleDocumentGenerated of part_003 runs
GenerateDocumentP3 ==
  /\ Screen = "chat"
  /\ rev = "P3"
  /\ showForm /\ apiKey # NoKey
  /\ isDocumentMode
  /\ error = "none"
  /\ \E ans \in {"ok", "invalid"}, ok \in BOOLEAN :
       IF ans = "ok"
         THEN /\ messages' = Append(messages, PlainMessage("assistant", <<"document-template">>))
              /\ showForm' = FALSE
              /\ isDocumentMode' = FALSE                \* DocumentRequestHandler unmounts
              /\ wpc' = "idle"
              /\ rows' = IF currentChatId # 0
                           THEN updateChatHistory(rows, currentChatId, messages', messages', ok)
                           ELSE rows
              /\ storeFailed' = (storeFailed \/ (currentChatId # 0 /\ ~ok))
              /\ UNCHANGED error
         ELSE /\ error' = "validation"                  \* onError(...)
              /\ UNCHANGED <<messages, showForm, isDocumentMode, wpc, rows, storeFailed>>
  /\ UNCHANGED <<gateVars, input, isLoading, typingMessage, currentChatId,
                 requestTimestamps, formFields, formData, formStep, formErrors,
                 isGeneratingDocument, hpc, h, w, chatHistories, histPc, rev, sideVars, now, nid,
                 budget, pool, vals, route, acceptedAt>>

\* checkApiKey of part_003 up to the credential query
CheckApiKeySessionP3 ==
  /\ rev = "P3"
  /\ gatePc = "getSession"
  /\ \/ /\ session # NoUser                                 \* getSession resolved
        /\ gatePc' = "lookup"
        /\ gateUser' = session
     \/ /\ session = NoUser
        /\ gatePc' = "to-login"                             \* navigate('/login')
        /\ UNCHANGED gateUser
     \/ /\ gatePc' = "failed"                               \* getSession threw
        /\ UNCHANGED gateUser
  /\ UNCHANGED <<session, storedKey, windowKey, prIsAuthenticated, prIsLoading, prPc,
                 isAuthenticated, isCheckingAuth, isCheckingApiKey, hasApiKey, apiKey,
                 user, sessPc, generating, setupError, setupPc, setupUser, setupKey, val,
                 chatVars>>

\* checkApiKey of part_003 from the answer of the credential query on:
\* .single() answers with an error when the user has no row
CheckApiKeyLookupP3 ==
  /\ rev = "P3"
  /\ gatePc = "lookup"
  /\ \/ /\ storedKey[gateUser] # NoKey                      \* data.gemini_key
        /\ gatePc' = "done"
        /\ apiKey' = storedKey[gateUser]
        /\ windowKey' = storedKey[gateUser]
     \/ /\ storedKey[gateUser] = NoKey                      \* a row without a key
        /\ gatePc' = "to-setup"                             \* navigate('/api-key-setup')
        /\ UNCHANGED <<apiKey, windowKey>>
     \/ /\ gatePc' = "failed"                               \* error, or the query threw
        /\ UNCHANGED <<apiKey, windowKey>>
  /\ UNCHANGED <<session, storedKey, prIsAuthenticated, prIsLoading, prPc,
                 isAuthenticated, isCheckingAuth, isCheckingApiKey, hasApiKey, user,
                 gateUser, sessPc, generating, setupError, setupPc, setupUser,
                 setupKey, val, chatVars>>

(***************************************************************************)
(* The revision of DocumentGenerator.tsx: the fields of a document are     *)
(* asked for one by one in the conversation                                *)
(***************************************************************************)

\* handleSubmit of DocumentGenerator.tsx up to its first await; handleFieldInput
\* runs within it when the conversation is in document mode
HandleSubmitDG ==
  /\ Screen = "chat"
  /\ rev = "DG"
  /\ budget > 0
  /\ trim(input) # <<>>
  /\ ~isLoading
  /\ budget' = budget - 1
  /\ IF Len(liveStamps(requestTimestamps, now)) >= MAX_REQUESTS_PER_WINDOW
       THEN /\ checkRateLimitRejects
            /\ route' = [NoRoute EXCEPT !.txt = input, !.at = now, !.path = "blocked",
                           !.wait = minutesUntilReset(requestTimestamps', now)]
            /\ UNCHANGED <<input, messages, isLoading, typingMessage, isDocumentMode,
                           formData, formStep, hpc, h, nid, acceptedAt>>
       ELSE /\ requestTimestamps' = Append(liveStamps(requestTimestamps, now), now)
            /\ error' = "none"
            /\ input' = <<>>
            /\ acceptedAt' = Append(acceptedAt, now)
            /\ nid' = nid + 2
            /\ h' = [closureOf(<<>>) EXCEPT
                       !.upd = messages \o
                                 << UserMessage(nid, input),
                                    AssistantMessage(nid + 1, getFinaccoResponse(input),
                                                     Undefined) >>]
            /\ IF isDraftRequest(trim(input))
                 THEN \* handleDocumentRequest(input)
                      /\ messages' = Append(messages, UserMessage(nid, input))
                      /\ isLoading' = TRUE
                      /\ isDocumentMode' = TRUE
                      /\ hpc' = "fields"
                      /\ route' = [NoRoute EXCEPT !.txt = input, !.at = now,
                                     !.path = "wizard", !.apiCalls = 1]
                      /\ UNCHANGED <<typingMessage, formData, formStep>>
                 ELSE IF isDocumentMode
                 THEN \* handleFieldInput(input)
                      /\ formData' = [formData EXCEPT ![formFields[formStep + 1].id] = input]
                      /\ IF formStep < Len(formFields) - 1
                           THEN /\ formStep' = formStep + 1
                                /\ messages' = messages \o
                                     << UserMessage(nid, input),
                                        AssistantMessage(nid + 1, "prompt", Undefined) >>
                                /\ isLoading' = FALSE
                                /\ hpc' = "idle"
                                /\ route' = [NoRoute EXCEPT !.txt = input, !.at = now,
                                               !.path = "field"]
                           ELSE /\ messages' = Append(messages, UserMessage(nid, input))
                                /\ isLoading' = TRUE
                                /\ hpc' = "docgen"
                                /\ route' = [NoRoute EXCEPT !.txt = input, !.at = now,
                                               !.path = "field", !.apiCalls = 1]
                                /\ UNCHANGED formStep
                      /\ UNCHANGED <<typingMessage, isDocumentMode>>
                 ELSE /\ messages' = Append(messages, UserMessage(nid, input))
                      /\ isLoading' = TRUE
                      /\ typingMessage' = TRUE
                      /\ IF getFinaccoResponse(input) # NoAnswer
                           THEN /\ hpc' = "typing"
                                /\ route' = [NoRoute EXCEPT !.txt = input, !.at = now,
                                               !.path = "faq"]
                           ELSE /\ hpc' = "reply"
                                /\ route' = [NoRoute EXCEPT !.txt = input, !.at = now,
                                               !.path = "general", !.apiCalls = 1]
                      /\ UNCHANGED <<isDocumentMode, formData, formStep>>
  \* the documentPrompt of handleFieldInput is built from the collectedData of
  \* the render in which the handler was started
  /\ w' = IF /\ Len(liveStamps(requestTimestamps, now)) < MAX_REQUESTS_PER_WINDOW
             /\ ~isDraftRequest(trim(input))
             /\ isDocumentMode
             /\ ~(formStep < Len(formFields) - 1)
            THEN [NoForm EXCEPT !.data = formData, !.fields = formFields]
            ELSE w
  /\ UNCHANGED <<gateVars, currentChatId, showForm, formFields, formErrors,
                 isGeneratingDocument, wpc, chatHistories, histPc, rev, sideVars, rows, now,
                 pool, vals, storeFailed>>

\* handleDocumentRequest of DocumentGenerator.tsx from the answer of the
\* field-schema request on, and the rest of the handleSubmit that awaited it
FieldsAnsweredDG ==
  /\ Mounted
  /\ rev = "DG"
  /\ hpc = "fields"
  /\ \E ans \in FieldAnswers, fs \in Schemas :
       /\ IF ans = "schema"
            THEN /\ formFields' = fs                        \* setDocumentFields
                 /\ formStep' = 0                           \* setCurrentFieldIndex(0)
                 /\ messages' = Append(messages, AssistantMessage(nid, "prompt", Undefined))
                 /\ nid' = nid + 1
                 /\ UNCHANGED <<error, isDocumentMode>>
            ELSE /\ error' = "form"                         \* catch
                 /\ isDocumentMode' = FALSE
                 /\ formFields' = <<>>
                 /\ formStep' = -1
                 /\ UNCHANGED <<messages, nid>>
       /\ route' = [route EXCEPT !.fld = ans]
  /\ submitFinallyDG
  /\ UNCHANGED <<gateVars, input, typingMessage, currentChatId, requestTimestamps,
                 showForm, formData, formErrors, isGeneratingDocument, h, wpc, w,
                 chatHistories, histPc, rev, sideVars, rows, now, budget, pool, vals, acceptedAt,
                 storeFailed>>

\* handleFieldInput from the answer of its document request on, and the rest of
\* the handleSubmit that awaited it
DocumentAnsweredDG ==
  /\ Mounted
  /\ rev = "DG"
  /\ hpc = "docgen"
  /\ \E ans \in DocumentAnswers :
       IF ans # "fail"
         THEN /\ messages' = Append(messages, AssistantMessage(nid, "document-ai", "true"))
              /\ nid' = nid + 1
              /\ isDocumentMode' = FALSE
              /\ formFields' = <<>>
              /\ formStep' = -1
              /\ formData' = NoData
              /\ UNCHANGED error
         ELSE /\ error' = "generate"                        \* catch
              /\ isDocumentMode' = FALSE
              /\ UNCHANGED <<messages, nid, formFields, formStep, formData>>
  /\ submitFinallyDG
  /\ UNCHANGED <<gateVars, input, typingMessage, currentChatId, requestTimestamps,
                 showForm, formErrors, isGeneratingDocument, h, wpc, w, chatHistories,
                 histPc, rev, sideVars, rows, now, budget, pool, vals, route, acceptedAt,
                 storeFailed>>

\* handleSubmit of DocumentGenerator.tsx from the answer of the reply request
\* (Gemini, or OpenAI after a 404) on
ReplyAnsweredDG ==
  /\ Mounted
  /\ rev = "DG"
  /\ hpc = "reply"
  /\ \E ans \in ReplyAnswers :
       IF ans = "ok"
         THEN /\ hpc' = "typing"
              /\ h' = [h EXCEPT !.upd = h.msgs \o
                          << UserMessage(h.uid, h.txt),
                             AssistantMessage(h.uid + 1, "reply", Undefined) >>]
              /\ UNCHANGED <<messages, isLoading, typingMessage, error, nid>>
         ELSE /\ typingMessage' = FALSE                     \* catch
              /\ error' = "process"
              /\ messages' = Append(messages, AssistantMessage(nid, "apology", Undefined))
              /\ nid' = nid + 1
              /\ submitFinallyDG
              /\ UNCHANGED h
  /\ UNCHANGED <<gateVars, input, currentChatId, requestTimestamps, wizVars,
                 chatHistories, histPc, rev, sideVars, rows, now, budget, pool, vals, route,
                 acceptedAt, storeFailed>>

\* one more word of the answer is shown: setTypingMessage(prev => ({...prev, content}))
\* puts the typing message back when New Chat or a conversation of the sidebar
\* has removed it
TypingWord ==
  /\ Mounted
  /\ rev = "DG"
  /\ hpc = "typing"
  /\ ~typingMessage
  /\ typingMessage' = TRUE
  /\ UNCHANGED <<gateVars, input, messages, isLoading, currentChatId, requestTimestamps,
                 wizVars, hpc, h, histVars, runVars>>

\* the last word was shown: the answer replaces the typing message, and
\* saveToHistory is called
TypingDone ==
  /\ Mounted
  /\ rev = "DG"
  /\ hpc = "typing"
  /\ typingMessage' = FALSE
  /\ messages' = h.upd                                      \* setMessages(updatedMessages)
  /\ h' = [h EXCEPT !.shown = h.upd]
  /\ hpc' = "save"
  /\ UNCHANGED <<gateVars, input, isLoading, currentChatId, requestTimestamps, wizVars,
                 histVars, runVars>>

(***************************************************************************)
(* Specifications                                                          *)
(***************************************************************************)

\* the conversation right after TaxAssistant is constructed
ConvStart ==
  /\ input = <<>>
  /\ messages = <<>>
  /\ isLoading = FALSE
  /\ error = "none"
  /\ typingMessage = FALSE
  /\ currentChatId = 0
  /\ chatHistories = <<>>
  /\ requestTimestamps = <<>>
  /\ isDocumentMode = FALSE
  /\ showForm = FALSE
  /\ formFields = <<>>
  /\ formData = NoData
  /\ formStep = (IF rev = "DG" THEN -1 ELSE 0)
  /\ formErrors = {}
  /\ isGeneratingDocument = FALSE
  /\ hpc = "idle"
  /\ h = NoClosure
  /\ wpc = "idle"
  /\ w = NoForm
  /\ histPc = "idle"

RunStart ==
  /\ del = NoDelete
  /\ adm = NoAdmin
  /\ au = NoAuth
  /\ rows = <<>>
  /\ now = 0
  /\ nid = 1
  /\ route = NoRoute
  /\ acceptedAt = <<>>
  /\ storeFailed = FALSE

\* the page is opened: ProtectedRoute has just been constructed
PageOpened ==
  /\ session \in Users \cup {NoUser}
  /\ storedKey \in [Users -> Keys \cup {NoKey}]
  /\ windowKey = NoKey
  /\ prIsAuthenticated = FALSE
  /\ prIsLoading = TRUE
  /\ prPc = "getSession"
  /\ isAuthenticated = FALSE
  /\ isCheckingAuth = TRUE
  /\ isCheckingApiKey = TRUE
  /\ hasApiKey = FALSE
  /\ apiKey = NoKey
  /\ user = NoUser
  /\ gatePc = "off"
  /\ gateUser = NoUser
  /\ sessPc = "off"
  /\ generating = FALSE
  /\ setupError = FALSE
  /\ setupPc = "idle"
  /\ setupUser = NoUser
  /\ setupKey = NoKey
  /\ val = NoValidation

GateInit ==
  /\ rev = "TA"
  /\ PageOpened
  /\ ConvStart
  /\ RunStart
  /\ budget = 0
  /\ pool = {}
  /\ vals = {}

GateNext ==
  \/ PRCheckAuth
  \/ \E u \in Users : SignIn(u)
  \/ AuthStateChange
  \/ SignOut
  \/ CheckAuthGetSession
  \/ CheckAuthLookup
  \/ GetSessionThen
  \/ \E k \in Keys : SaveApiKey(KeyText(k))
  \/ SaveApiKeySession
  \/ SaveApiKeyValidate
  \/ ValidateRetry
  \/ SaveApiKeyUpsert
  \/ LoadChatHistoryDone

SpecGate == GateInit /\ [][GateNext]_vars

\* the revisions of the chat component
Revisions == {"TA", "P2", "P3", "DG"}

MaxSubmits == 2
MaxRows == 2
MaxFields == 4

\* the gate has let the user "alice" through: the state SpecGate reaches when
\* her session and her stored credential are found
GatePassed ==
  /\ session = "alice"
  /\ storedKey = [u \in Users |-> IF u = "alice" THEN "AIzaA" ELSE NoKey]
  /\ windowKey = "AIzaA"
  /\ prIsAuthenticated = TRUE
  /\ prIsLoading = FALSE
  /\ prPc = "done"
  /\ isAuthenticated = TRUE
  /\ isCheckingAuth = FALSE
  /\ isCheckingApiKey = FALSE
  /\ hasApiKey = TRUE
  /\ apiKey = "AIzaA"
  /\ user = "alice"
  /\ gatePc = "done"
  /\ gateUser = "alice"
  /\ sessPc = "done"
  /\ generating = FALSE
  /\ setupError = FALSE
  /\ setupPc = "idle"
  /\ setupUser = NoUser
  /\ setupKey = NoKey
  /\ val = NoValidation

\* what the user types in one run: the chat texts and the wizard values
Scenarios == { <<{TxtDraft}, {ValDate}>>, <<{TxtCreate}, {ValEmail}>>,
               <<{TxtPhone}, {ValBlank}>>, <<{TxtGst}, {ValDate}>>,
               <<{TxtBlank}, {ValEmail}>> }

\* in DocumentGenerator.tsx the values of the fields are chat messages: the
\* user asks for a document and answers the questions, or asks other things
ScenariosDG == { <<{TxtDraft, TxtGst}, {}>>, <<{TxtPhone, TxtBlank}, {}>> }

\* the submissions it takes to answer the questions of one document
MaxFieldInputs == 2

ChatInit ==
  /\ rev \in Revisions
  /\ GatePassed
  /\ ConvStart
  /\ RunStart
  /\ budget = (IF rev = "DG" THEN MaxSubmits + MaxFieldInputs ELSE MaxSubmits)
  /\ \E s \in (IF rev = "DG" THEN ScenariosDG ELSE Scenarios) :
       pool = s[1] /\ vals = s[2]

ChatNext ==
  \/ \E t \in pool : TypeInput(t)
  \/ HandleSubmit
  \/ Classified
  \/ FieldsAnswered
  \/ ReplyAnswered
  \/ SaveToHistory
  \/ LoadChatHistoryDone
  \/ \E i \in 1..MaxRows : LoadChat(i)
  \/ CreateNewChat
  \/ \E i \in 1..MaxFields, v \in vals : HandleFieldChange(i, v)
  \/ FormStepNext
  \/ FormStepPrevious
  \/ HandleFormSubmit
  \/ DocumentAnswered
  \/ HandleSubmitP3
  \/ ChatCreatedP3
  \/ FirstUpdateP3
  \/ ClassifiedP3
  \/ ReplyAnsweredP3
  \/ LastUpdateP3
  \/ RequestAnalyzed
  \/ GenerateDocumentP3
  \/ HandleSubmitDG
  \/ FieldsAnsweredDG
  \/ DocumentAnsweredDG
  \/ ReplyAnsweredDG
  \/ TypingWord
  \/ TypingDone

SpecChat == ChatInit /\ [][ChatNext]_vars

MaxRateSubmits == 5
TickStep == 30000
MaxTime == 90000

\* time passes
Tick ==
  /\ now < MaxTime
  /\ now' = now + TickStep
  /\ UNCHANGED <<gateVars, convVars, histVars, rev, sideVars, rows, nid, budget, pool, vals,
                 route, acceptedAt, storeFailed>>

\* a user who sends the same question again and again
RateInit ==
  /\ rev \in {"TA", "P2", "DG"}
  /\ GatePassed
  /\ ConvStart
  /\ RunStart
  /\ budget = MaxRateSubmits
  /\ pool = {TxtPhone}
  /\ vals = {ValDate}

RateNext ==
  \/ Tick
  \/ \E t \in pool : TypeInput(t)
  \/ HandleSubmit
  \/ Classified
  \/ FieldsAnswered
  \/ SaveToHistory
  \/ LoadChatHistoryDone
  \/ HandleSubmitDG
  \/ TypingDone

SpecRate == RateInit /\ [][RateNext]_vars

MaxFormSubmits == 1

\* the sets of values a user has at hand for one form
ValueSets == { {ValEmail, ValDate}, {ValDate, ValLines}, {ValBlank, ValEmail} }

\* a user of TaxAssistant.tsx who asks for a document and fills in the form
FormInit ==
  /\ rev = "TA"
  /\ GatePassed
  /\ ConvStart
  /\ RunStart
  /\ budget = MaxFormSubmits
  /\ pool = {TxtCreate}
  /\ vals \in ValueSets

FormNext ==
  \/ \E t \in pool : TypeInput(t)
  \/ HandleSubmit
  \/ Classified
  \/ FieldsAnswered
  \/ \E i \in 1..MaxFields, v \in vals : HandleFieldChange(i, v)
  \/ FormStepNext
  \/ FormStepPrevious
  \/ HandleFormSubmit
  \/ DocumentAnswered

SpecForm == FormInit /\ [][FormNext]_vars

MaxLiveSubmits == 1

\* one conversation of TaxAssistant.tsx or of DocumentGenerator.tsx
LiveInit ==
  /\ rev \in {"TA", "DG"}
  /\ GatePassed
  /\ ConvStart
  /\ RunStart
  /\ budget = (IF rev = "DG" THEN MaxLiveSubmits + MaxFieldInputs ELSE MaxLiveSubmits)
  /\ \E s \in (IF rev = "DG" THEN ScenariosDG ELSE Scenarios) :
       pool = s[1] /\ vals = s[2]

LiveNext ==
  \/ \E t \in pool : TypeInput(t)
  \/ HandleSubmit
  \/ Classified
  \/ FieldsAnswered
  \/ ReplyAnswered
  \/ SaveToHistory
  \/ LoadChatHistoryDone
  \/ \E i \in 1..MaxRows : LoadChat(i)
  \/ CreateNewChat
  \/ \E i \in 1..MaxFields, v \in vals : HandleFieldChange(i, v)
  \/ FormStepNext
  \/ FormStepPrevious
  \/ HandleFormSubmit
  \/ DocumentAnswered
  \/ HandleSubmitDG
  \/ FieldsAnsweredDG
  \/ DocumentAnsweredDG
  \/ ReplyAnsweredDG
  \/ TypingWord
  \/ TypingDone

\* every request of a running handleSubmit is answered, and the timers of the
\* word-by-word display fire
RequestsSettle ==
  /\ WF_vars(Classified)
  /\ WF_vars(FieldsAnswered)
  /\ WF_vars(ReplyAnswered)
  /\ WF_vars(SaveToHistory)
  /\ WF_vars(FieldsAnsweredDG)
  /\ WF_vars(DocumentAnsweredDG)
  /\ WF_vars(ReplyAnsweredDG)
  /\ WF_vars(TypingDone)

SpecLive == LiveInit /\ [][LiveNext]_vars /\ RequestsSettle

MaxMountSubmits == 1

\* part_003 has just been mounted: checkApiKey is started, and the conversation
\* is on screen
MountInitP3 ==
  /\ rev = "P3"
  /\ session \in Users \cup {NoUser}
  /\ storedKey \in [Users -> Keys \cup {NoKey}]
  /\ windowKey = NoKey
  /\ prIsAuthenticated = TRUE
  /\ prIsLoading = FALSE
  /\ prPc = "done"
  /\ isAuthenticated = FALSE
  /\ isCheckingAuth = FALSE
  /\ isCheckingApiKey = FALSE
  /\ hasApiKey = FALSE
  /\ apiKey = NoKey
  /\ user = NoUser
  /\ gatePc = "getSession"
  /\ gateUser = NoUser
  /\ sessPc = "off"
  /\ generating = FALSE
  /\ setupError = FALSE
  /\ setupPc = "idle"
  /\ setupUser = NoUser
  /\ setupKey = NoKey
  /\ val = NoValidation
  /\ ConvStart
  /\ RunStart
  /\ budget = MaxMountSubmits
  /\ pool = {TxtGst}
  /\ vals = {}

MountNextP3 ==
  \/ CheckApiKeySessionP3
  \/ CheckApiKeyLookupP3
  \/ \E t \in pool : TypeInput(t)
  \/ HandleSubmitP3
  \/ ChatCreatedP3
  \/ ClassifiedP3
  \/ ReplyAnsweredP3
  \/ RequestAnalyzed
  \/ GenerateDocumentP3

SpecMountP3 == MountInitP3 /\ [][MountNextP3]_vars

\* the gate has found a session and no stored credential for its user:
\* ApiKeySetup is on screen
SetupShown ==
  /\ session \in Users
  /\ storedKey = [u \in Users |-> NoKey]
  /\ windowKey = NoKey
  /\ prIsAuthenticated = TRUE
  /\ prIsLoading = FALSE
  /\ prPc = "done"
  /\ isAuthenticated = TRUE
  /\ isCheckingAuth = FALSE
  /\ isCheckingApiKey = FALSE
  /\ hasApiKey = FALSE
  /\ apiKey = NoKey
  /\ user = session
  /\ gatePc = "done"
  /\ gateUser = session
  /\ sessPc = "done"
  /\ generating = FALSE
  /\ setupError = FALSE
  /\ setupPc = "idle"
  /\ setupUser = NoUser
  /\ setupKey = NoKey
  /\ val = NoValidation

\* what the user types into the key input: two keys (one with blanks around
\* it), blanks only, a key that is too short, a text that is no key
SetupTexts ==
  { KeyText("AIzaA"), <<" ">> \o KeyText("AIzaB") \o <<" ", " ">>, <<" ", " ">>,
    <<"A", "I", "z", "a", "A">>, <<"s", "k", "-", "1">> }

SetupInit ==
  /\ rev = "TA"
  /\ SetupShown
  /\ ConvStart
  /\ RunStart
  /\ budget = 0
  /\ pool = {}
  /\ vals = {}

SetupNext ==
  \/ \E t \in SetupTexts : SaveApiKey(t)
  \/ SaveApiKeySession
  \/ SaveApiKeyValidate
  \/ ValidateRetry
  \/ SaveApiKeyUpsert

SpecSetup == SetupInit /\ [][SetupNext]_vars

\* every awaited call of saveApiKey is answered: getSession, the validation
\* request (aborted after MAX_TIMEOUT at the latest), the sleep, the upsert
SpecSetupLive ==
  /\ SpecSetup
  /\ WF_vars(SaveApiKeySession)
  /\ WF_vars(SaveApiKeyValidate)
  /\ WF_vars(ValidateRetry)
  /\ WF_vars(SaveApiKeyUpsert)

(***************************************************************************)
(* Part IV - the admin-only route                                          *)
(***************************************************************************)

\* the e-mail addresses of the users
Email(u) ==
  IF u = "alice"
    THEN <<"a", "@", "f", "i", "n", "a", "c", "c", "o", "s", "o", "l", "u", "t", "i",
           "o", "n", "s", ".", "c", "o", "m">>
    ELSE <<"b", "@", "x", ".", "c", "o">>

AdminDomain ==
  <<"@", "f", "i", "n", "a", "c", "c", "o", "s", "o", "l", "u", "t", "i", "o", "n",
    "s", ".", "c", "o", "m">>

\* String.prototype.endsWith
endsWith(s, k) == Len(s) >= Len(k) /\ SubSeq(s, Len(s) - Len(k) + 1, Len(s)) = k

\* session?.user?.email?.endsWith('@finaccosolutions.com')
isAdminSession(s) == s # NoUser /\ endsWith(Email(s), AdminDomain)

\* what a ProtectedRoute adminOnly in state a renders
screenOf(a) ==
  IF a.path # "/admin" THEN "home"
  ELSE IF a.isLoading THEN "spinner"
  ELSE IF ~a.isAuthenticated THEN "auth"
  ELSE IF ~a.isAdmin THEN "redirect"
  ELSE "content"

AdminScreen == screenOf(adm)

routeFrame ==
  UNCHANGED <<storedKey, windowKey, prIsAuthenticated, prIsLoading, prPc,
              isAuthenticated, isCheckingAuth, isCheckingApiKey, hasApiKey, apiKey,
              user, gatePc, gateUser, sessPc, generating, setupError, setupPc,
              setupUser, setupKey, val, convVars, histVars, rev, del, rows, now, nid,
              budget, pool, vals, route, acceptedAt, storeFailed>>

\* the route state a becomes current; the Auth form is kept as f while it stays
\* on screen and is constructed anew when it is shown again
routeBecomes(a, f) ==
  /\ adm' = a
  /\ au' = IF screenOf(a) = "auth" /\ AdminScreen = "auth" THEN f ELSE NoAuth

\* the callback of onAuthStateChange in ProtectedRoute
adminListener(s) ==
  IF adm.path = "/admin"
    THEN [adm EXCEPT !.isAuthenticated = (s # NoUser),
                     !.isAdmin = @ \/ isAdminSession(s),
                     !.isLoading = FALSE]
    ELSE adm

\* the admin page is opened: ProtectedRoute adminOnly is constructed
OpenAdminRoute ==
  /\ adm.path = "/"
  /\ routeBecomes([path |-> "/admin", isAuthenticated |-> FALSE, isAdmin |-> FALSE,
                   isLoading |-> TRUE, pc |-> "getSession"], NoAuth)
  /\ UNCHANGED session
  /\ routeFrame

\* checkAuth of ProtectedRoute: getSession is answered
AdminCheckAuth ==
  /\ adm.path = "/admin"
  /\ adm.pc = "getSession"
  /\ \E err \in BOOLEAN :
       routeBecomes([adm EXCEPT !.isAuthenticated = (~err /\ session # NoUser),
                                !.isAdmin = @ \/ (~err /\ isAdminSession(session)),
                                !.isLoading = FALSE,
                                !.pc = "done"], au)
  /\ UNCHANGED session
  /\ routeFrame

\* the provider reports the current session again (INITIAL_SESSION, TOKEN_REFRESHED)
AdminAuthStateChange ==
  /\ adm.path = "/admin"
  /\ routeBecomes(adminListener(session), au)
  /\ UNCHANGED session
  /\ routeFrame

\* the session ends (sign-out in the page or elsewhere)
AdminSignOut ==
  /\ adm.path = "/admin"
  /\ session # NoUser
  /\ session' = NoUser
  /\ routeBecomes(adminListener(NoUser), au)
  /\ routeFrame

\* <Navigate to="/" replace />: the route is left and ProtectedRoute unmounts
AdminRedirect ==
  /\ AdminScreen = "redirect"
  /\ routeBecomes(NoAdmin, NoAuth)
  /\ UNCHANGED session
  /\ routeFrame

\* "Don't have an account? Sign Up" / "Already have an account? Sign In"
ToggleLogin ==
  /\ AdminScreen = "auth"                                 \* the form is on screen
  /\ ~au.isVerifying /\ ~au.isResetPassword
  /\ au' = [au EXCEPT !.isLogin = ~@, !.error = FALSE]
  /\ UNCHANGED <<session, adm>>
  /\ routeFrame

\* "Forgot your password?" and "Back to Sign In"
ToggleResetPassword ==
  /\ AdminScreen = "auth"                                 \* the form is on screen
  /\ ~au.isVerifying
  /\ IF au.isResetPassword
       THEN au' = [au EXCEPT !.isResetPassword = FALSE]
       ELSE au.isLogin /\ au' = [au EXCEPT !.isResetPassword = TRUE, !.error = FALSE]
  /\ UNCHANGED <<session, adm>>
  /\ routeFrame

\* the form is submitted: handleVerifyOTP, handlePasswordReset or handleSubmit,
\* up to the backend call; valid tells whether the fields pass validation
AuthFormSubmit ==
  /\ AdminScreen = "auth"                                 \* the form is on screen
  /\ ~au.loading                                           \* disabled={loading}
  /\ au.pc = "idle"
  /\ \E valid \in BOOLEAN :
       au' = IF au.isVerifying
               THEN [au EXCEPT !.error = FALSE, !.loading = TRUE, !.pc = "otp"]
             ELSE IF au.isResetPassword
               THEN IF valid
                      THEN [au EXCEPT !.error = FALSE, !.loading = TRUE, !.pc = "reset"]
                      ELSE [au EXCEPT !.error = FALSE, !.loading = FALSE]
             ELSE IF valid
               THEN [au EXCEPT !.error = FALSE, !.loading = TRUE,
                               !.pc = IF au.isLogin THEN "signin" ELSE "signup"]
               ELSE [au EXCEPT !.error = FALSE]
  /\ UNCHANGED <<session, adm>>
  /\ routeFrame

\* handleVerifyOTP ends with neither error nor session: it has no finally
\* block, and setLoading(false) stands in the catch block only
otpEndsWithoutSession == au' = [au EXCEPT !.pc = "idle"]

\* the backend call of the running handler is answered, and the handler ends
AuthAnswered ==
  /\ AdminScreen = "auth"                                 \* the form is on screen
  /\ au.pc # "idle"
  /\ \E out \in {"error", "session", "neither"}, u \in Users :
       CASE out = "session" /\ au.pc \in {"signin", "otp"} ->
              \* the provider signs the user in and notifies ProtectedRoute,
              \* which takes the form off the screen
              /\ session' = u
              /\ routeBecomes(adminListener(u), au)
         [] out = "error" ->
              /\ au' = [au EXCEPT !.error = TRUE, !.loading = FALSE, !.pc = "idle"]
              /\ UNCHANGED <<session, adm>>
         [] OTHER ->
              /\ IF au.pc = "otp"
                   THEN otpEndsWithoutSession
                   ELSE au' = [au EXCEPT !.loading = FALSE, !.pc = "idle",
                                         !.isVerifying = @ \/ au.pc = "signup"]
              /\ UNCHANGED <<session, adm>>
  /\ routeFrame

\* the site is opened without a session, on the home page
RouteInit ==
  /\ rev = "TA"
  /\ PageOpened
  /\ session = NoUser
  /\ storedKey = [u \in Users |-> NoKey]
  /\ ConvStart
  /\ RunStart
  /\ budget = 0
  /\ pool = {}
  /\ vals = {}

RouteNext ==
  \/ OpenAdminRoute
  \/ AdminCheckAuth
  \/ AdminAuthStateChange
  \/ AdminSignOut
  \/ AdminRedirect
  \/ ToggleLogin
  \/ ToggleResetPassword
  \/ AuthFormSubmit
  \/ AuthAnswered

SpecRoute == RouteInit /\ [][RouteNext]_vars

\* every backend call of the route and of the form is answered
SpecRouteLive ==
  /\ SpecRoute
  /\ WF_vars(AdminCheckAuth)
  /\ WF_vars(AuthAnswered)

MaxKeySubmits == 1

\* a user without a credential completes the setup step of the gate and asks
\* a question
KeyInit ==
  /\ rev = "TA"
  /\ SetupShown
  /\ ConvStart
  /\ RunStart
  /\ budget = MaxKeySubmits
  /\ pool = {TxtGst}
  /\ vals = {}

KeyNext ==
  \/ SetupNext
  \/ \E t \in pool : TypeInput(t)
  \/ HandleSubmit
  \/ Classified
  \/ FieldsAnswered
  \/ ReplyAnswered
  \/ SaveToHistory
  \/ LoadChatHistoryDone

SpecKey == KeyInit /\ [][KeyNext]_vars

MaxDeleteSubmits == 2

\* a user who tidies the sidebar while chatting
DeleteInit ==
  /\ rev = "TA"
  /\ GatePassed
  /\ ConvStart
  /\ RunStart
  /\ budget = MaxDeleteSubmits
  /\ pool = {TxtGst}
  /\ vals = {}

DeleteNext ==
  \/ \E t \in pool : TypeInput(t)
  \/ HandleSubmit
  \/ Classified
  \/ FieldsAnswered
  \/ ReplyAnswered
  \/ SaveToHistory
  \/ LoadChatHistoryDone
  \/ \E i \in 1..MaxRows : LoadChat(i)
  \/ CreateNewChat
  \/ \E i \in 1..MaxRows : DeleteChat(i)
  \/ DeleteChatDone
  \/ ClearChat
  \/ ClearChatDone

SpecDelete == DeleteInit /\ [][DeleteNext]_vars

MaxTitleSubmits == 2
LongLen == 101
MidLen == 60

\* a question of more than 100 characters and one of more than 50
TxtLong == [i \in 1..LongLen |-> "x"]
TxtMid == [i \in 1..MidLen |-> "y"]

\* a user whose questions are long
TitleInit ==
  /\ rev \in {"TA", "P3"}
  /\ GatePassed
  /\ ConvStart
  /\ RunStart
  /\ budget = MaxTitleSubmits
  /\ pool = {TxtLong, TxtMid}
  /\ vals = {}

TitleNext ==
  \/ \E t \in pool : TypeInput(t)
  \/ HandleSubmit
  \/ Classified
  \/ FieldsAnswered
  \/ ReplyAnswered
  \/ SaveToHistory
  \/ LoadChatHistoryDone
  \/ HandleSubmitP3
  \/ ChatCreatedP3
  \/ FirstUpdateP3
  \/ ClassifiedP3
  \/ ReplyAnsweredP3
  \/ LastUpdateP3
  \/ RequestAnalyzed
  \/ GenerateDocumentP3

SpecTitle == TitleInit /\ [][TitleNext]_vars

(***************************************************************************)
(* Part IV.  Properties                                                    *)
(***************************************************************************)

\* C1: the conversational UI is rendered only while a session exists and a
\* credential is stored for that session's user; while the check is pending,
\* or without a session, or without a stored credential, one of the loading,
\* sign-in and credential-setup screens is rendered instead.
C1_ChatOnlyWhenEntitled ==
  /\ Screen = "chat" => (session # NoUser /\ storedKey[session] # NoKey)
  /\ (Mounted /\ (gatePc \in {"getSession", "lookup"})) => Screen = "loading"
  /\ session = NoUser => Screen \in {"pr-loading", "pr-auth"}
  /\ (session # NoUser /\ storedKey[session] = NoKey)
       => Screen \in {"pr-loading", "pr-auth", "loading", "auth", "setup"}

\* the chat is shown to a user who got there through the credential lookup
C1_Witness ==
  /\ Screen = "chat"
  /\ gatePc = "done"
  /\ session # NoUser
  /\ apiKey = storedKey[session]

\* generative-API requests of the conversation that have not settled
GenerativeRequests ==
  (IF hpc \in {"classify", "fields", "reply", "docgen"} THEN 1 ELSE 0)
    + (IF wpc \in {"gen", "analyze"} THEN 1 ELSE 0)

\* C2: at most one exchange is in flight: while a submission is being handled
\* no further submission is accepted, and never is more than one
\* generative-API request of the conversation outstanding, document
\* generation of the wizard included.
C2_OneExchangeInFlight ==
  rev = "TA" =>
    /\ hpc # "idle" => isLoading
    /\ GenerativeRequests <= 1

\* C3: no 60-second window holds more than 3 accepted submissions; a blocked
\* submission is told a wait greater than zero, and it is blocked only while 3
\* accepted submissions are less than 60 seconds old.
C3_ThreePerWindow ==
  rev \in {"TA", "P2"} =>
    /\ \A i \in 1..Len(acceptedAt) :
         i + MAX_REQUESTS_PER_WINDOW <= Len(acceptedAt)
           => acceptedAt[i + MAX_REQUESTS_PER_WINDOW] - acceptedAt[i] >= RATE_LIMIT_WINDOW
    /\ route.path = "blocked" =>
         /\ route.wait > 0
         /\ Cardinality({i \in 1..Len(acceptedAt) :
                           route.at - acceptedAt[i] < RATE_LIMIT_WINDOW})
              >= MAX_REQUESTS_PER_WINDOW

\* the last message of the transcript completes an exchange: a canned answer,
\* a generated reply or a generated document
ExchangeCompleted ==
  /\ hpc = "idle" /\ wpc = "idle"
  /\ messages # <<>>
  /\ messages[Len(messages)].role = "assistant"
  /\ messages[Len(messages)].content \notin {<<"prompt">>, <<"sorry-error">>}

\* C4: once an exchange is completed and nothing is in flight, the list stored
\* for the conversation is the whole transcript (as long as the store has not
\* failed).
C4_StoredAfterEveryExchange ==
  (rev = "TA" /\ ExchangeCompleted /\ ~storeFailed) =>
    /\ currentChatId \in DOMAIN rows
    /\ rows[currentChatId].messages = jsonList(messages)

\* the user turns to another conversation
SwitchesChat == CreateNewChat \/ \E i \in 1..MaxRows : LoadChat(i)

\* C5: within a conversation every new value of the transcript, and of each
\* stored list, extends the previous value.
C5_AppendOnly ==
  [][ SwitchesChat
      \/ /\ IsPrefix(messages, messages')
         /\ \A id \in DOMAIN rows :
              IsPrefix(rows[id].messages, rows'[id].messages) ]_vars

\* C6: a conversation loaded from the sidebar shows what was displayed when
\* saveToHistory stored it.
C6_RoundTrip ==
  [][ \A i \in 1..MaxRows :
        (rev = "TA" /\ LoadChat(i))
          => Shown(messages') = Shown(chatHistories[i].shown) ]_vars

\* C7: a submitted message that matches the document-request pattern goes to
\* the wizard and gets neither a canned nor a general reply.
C7_PatternEntersWizard ==
  (rev \in {"TA", "P2"} /\ isDraftRequest(route.txt)
     /\ route.path \notin {"none", "blocked"})
    => route.path = "wizard"

\* C8: a message with a canned-FAQ keyword that is not a document request is
\* answered with the canned text, and no generative-API request is sent for it.
C8_CannedWithoutRequest ==
  (rev \in {"TA", "P2"} /\ getFinaccoResponse(route.txt) # NoAnswer
     /\ ~isDraftRequest(route.txt) /\ route.cls # "positive"
     /\ route.path # "blocked")
    => /\ route.apiCalls = 0
       /\ route.path \in {"none", "faq"}

\* C9: when the classification request fails or answers with no known label,
\* the message is handled as a general query.
C9_ClassifierFallback ==
  (rev \in {"TA", "P3"} /\ route.cls \in {"other", "notext", "fail"})
    => route.path \in {"faq", "general"}

\* C10: when the document request of a validated form settles, a document
\* message is appended and the wizard is closed.
C10_DocumentAlwaysProduced ==
  [][ (rev \in {"TA", "P2"} /\ wpc = "gen" /\ wpc' = "idle")
        => /\ Len(messages') = Len(messages) + 1
           /\ messages'[Len(messages')].isDocument = "true"
           /\ ~showForm' ]_vars

\* the answers of the field-schema request that are not JSON of the shape
\* {"fields": [...]} with at least one field
MalformedSchemas == {"nojson", "badjson", "nofields", "empty"}

\* C11: when the field-schema answer has no JSON object, does not parse, has no
\* fields array or has an empty one, handleDocumentRequest still opens the
\* wizard, on the default field set.
C11_MalformedSchemaOpensDefaults ==
  [][ (rev \in {"TA", "P2"} /\ hpc = "fields" /\ hpc' = "idle"
         /\ route'.fld \in MalformedSchemas)
        => (showForm' /\ formFields' = getDefaultFields) ]_vars

RECURSIVE join(_, _)
\* the lines ps put together again
join(ps, sep) ==
  IF ps = <<>> THEN <<>>
  ELSE IF Len(ps) = 1 THEN ps[1]
  ELSE ps[1] \o <<sep>> \o join(Tail(ps), sep)

\* C12: when the document request fails, generateDocument yields the fallback
\* template, and for every submitted value the template holds exactly one
\* section, whose paragraphs are the lines of that value.
C12_FallbackHoldsEveryValue ==
  (rev = "TA" /\ w.ans = "fail") =>
    /\ w.doc.kind = "document-template"
    /\ \A f \in FieldIds :
         w.data[f] # <<>> =>
           /\ Cardinality({i \in DOMAIN w.doc.sections : w.doc.sections[i].key = f}) = 1
           /\ \A i \in DOMAIN w.doc.sections :
                w.doc.sections[i].key = f
                  => join(w.doc.sections[i].paras, "\n") = w.data[f]

\* a fallback template was produced from a form with a value of two lines
C12_Witness ==
  /\ rev = "TA"
  /\ w.ans = "fail"
  /\ w.doc.kind = "document-template"
  /\ \E i \in DOMAIN w.doc.sections : Len(w.doc.sections[i].paras) = 2
  /\ \E f \in FieldIds : w.data[f] = ValDate

\* the fields of the form whose value the claim calls wrong: a required field
\* left blank, an email value without '@', a value its type's test rejects
RejectedFields(data, fields) ==
  { i \in DOMAIN fields :
      LET v == data[fields[i].id] IN
      \/ fields[i].required /\ trim(v) = <<>>
      \/ trim(v) # <<>> /\ fields[i].type = "email" /\ ~includes(v, <<"@">>)
      \/ trim(v) # <<>> /\ fields[i].type = "email" /\ ~isEmail(trim(v))
      \/ trim(v) # <<>> /\ fields[i].type = "tel" /\ ~isTel(trim(v))
      \/ trim(v) # <<>> /\ fields[i].type = "date" /\ ~isDate(trim(v))
      \/ trim(v) # <<>> /\ fields[i].type = "number" /\ ~isNumber(trim(v)) }

\* C13: the Generate Document button starts document generation only when no
\* field is rejected; otherwise every rejected field gets an error, no request
\* is sent, and the wizard stays open with the values as they were. An email
\* value with one '@' and a domain suffix is not rejected.
C13_OnlyValidFormsGenerate ==
  [][ (rev = "TA" /\ HandleFormSubmit) =>
        /\ IF RejectedFields(formData, formFields) # {}
             THEN /\ \A i \in RejectedFields(formData, formFields) :
                       formFields[i].id \in formErrors'
                  /\ wpc' = "idle" /\ ~isGeneratingDocument'
                  /\ GenerativeRequests' = GenerativeRequests
                  /\ showForm' /\ formData' = formData /\ formFields' = formFields
             ELSE wpc' = "gen" /\ formErrors' = {}
        /\ \A i \in DOMAIN formFields :
             (formFields[i].type = "email" /\ formData[formFields[i].id] = ValEmail)
               => formFields[i].id \notin formErrors' ]_vars

\* a form whose required email field holds a value without '@' was submitted
\* and blocked
C13_Witness ==
  /\ rev = "TA"
  /\ showForm /\ wpc = "idle"
  /\ error = "validation"
  /\ "email" \in formErrors
  /\ formData["email"] # <<>>
  /\ ~includes(formData["email"], <<"@">>)

C15_FailedCheckShowsGate ==
  [][ (gatePc # "failed" /\ gatePc' = "failed")
        => /\ Screen' \in {"auth", "setup"}
           /\ apiKey' = NoKey
           /\ windowKey' = windowKey ]_vars

\* the document wizard is active: the form is on screen or, in
\* DocumentGenerator.tsx, the fields are being asked for in the conversation
WizardActive ==
  IF rev = "DG" THEN isDocumentMode /\ formFields # <<>> ELSE showForm

\* a chat submission is awaiting its response or showing it
AwaitingResponse == hpc \in {"classify", "fields", "reply", "typing", "save"}

\* C16: the conversation is never awaiting a response while the document
\* wizard is active, and the wizard becomes active only as the outcome of a
\* submission handled as a document request.
C16_WizardOrExchange ==
  [][ (rev \in {"TA", "DG"}) =>
        ( /\ ~(WizardActive' /\ AwaitingResponse')
          /\ ((~WizardActive /\ WizardActive')
                => (hpc = "fields" /\ route.path = "wizard")) ) ]_vars

\* C17: a submission that the rate limiter rejects sends no request, adds no
\* message, records no timestamp and leaves the loading flag, the input text
\* and the rest of the conversation as they were; it sets the error banner,
\* whose estimate of the wait is at least one minute.
C17_RejectedSubmissionFrame ==
  [][ ((HandleSubmit \/ HandleSubmitDG) /\ route'.path = "blocked") =>
        /\ rev \in {"P2", "DG"}
        /\ route'.apiCalls = 0
        /\ GenerativeRequests' = GenerativeRequests
        /\ hpc' = hpc
        /\ messages' = messages
        /\ requestTimestamps' = requestTimestamps
        /\ acceptedAt' = acceptedAt
        /\ isLoading' = isLoading
        /\ input' = input
        /\ typingMessage' = typingMessage
        /\ currentChatId' = currentChatId
        /\ rows' = rows
        /\ wizVars' = wizVars
        /\ error' = "rate"
        /\ route'.wait >= 1 ]_vars

\* a rejected submission: three accepted ones are on the transcript, the banner
\* is up and the rejected text is still in the input box
C17_Witness ==
  /\ rev \in {"P2", "DG"}
  /\ route.path = "blocked"
  /\ error = "rate"
  /\ Len(acceptedAt) = MAX_REQUESTS_PER_WINDOW
  /\ Len(requestTimestamps) = MAX_REQUESTS_PER_WINDOW
  /\ input = TxtPhone
  /\ ~isLoading

\* C18: a step adds at most one row, and only when the conversation has none;
\* the new row belongs to the signed-in user and becomes the conversation's
\* row; and when a handler ends with a completed exchange (the store not
\* having failed) the conversation's row holds the whole transcript.
C18_OneRowPerConversation ==
  [][ (rev \in {"TA", "P3"} /\ ~storeFailed') =>
        /\ Len(rows') <= Len(rows) + 1
        /\ Len(rows') = Len(rows) + 1 =>
             /\ currentChatId = 0
             /\ currentChatId' = Len(rows')
             /\ rows'[Len(rows')].user_id = session
        /\ (hpc # "idle" /\ ExchangeCompleted') =>
             /\ currentChatId' \in DOMAIN rows'
             /\ rows'[currentChatId'].messages = jsonList(messages') ]_vars

\* the content of the first user message of a stored list, <<>> if there is none
firstUserContent(ms) ==
  LET us == SelectSeq(ms, LAMBDA m : m.role = "user")
  IN IF us = <<>> THEN <<>> ELSE us[1].content

\* C19: the title of every stored conversation that holds a user message is
\* that conversation's first user message when the message has at most 100
\* characters, and otherwise a beginning of it of at most 100 characters.
C19_TitleFromFirstMessage ==
  \A id \in DOMAIN rows :
    LET first == firstUserContent(rows[id].messages)
    IN first # <<>> =>
         /\ Len(rows[id].title) <= 100
         /\ IF Len(first) <= 100
              THEN rows[id].title = first
              ELSE IsPrefix(rows[id].title, first)

\* C20: the cached credential changes only when the credential lookup of the
\* gate's check is answered, to the credential the lookup found, and only from
\* its unset value.
C20_OnlyGateWritesCache ==
  [][ windowKey' # windowKey =>
        /\ gatePc = "lookup"
        /\ windowKey' = storedKey[gateUser]
        /\ windowKey = NoKey ]_vars

\* C21: a deleteChat that ends leaves the history list as it was or without
\* the selected entry only; it changes the transcript or the current chat id
\* only when the deleted chat is the current one, and changes nothing of them
\* when the delete failed. A clearChat that ends changes the transcript, the
\* list and the current chat id only when the bulk delete succeeded.
C21_DeleteFrame ==
  [][ /\ DeleteChatDone =>
           /\ chatHistories' \in {chatHistories, withoutChat(chatHistories, del.chatId)}
           /\ (messages' # messages \/ currentChatId' # currentChatId)
                => (del.chatId = currentChatId /\ del'.ans = "ok")
           /\ del'.ans # "ok" => chatHistories' = chatHistories
      /\ ClearChatDone =>
           ((messages' # messages \/ currentChatId' # currentChatId
               \/ chatHistories' # chatHistories) => del'.ans = "ok") ]_vars

\* the credential lookup of the gate's check for the signed-in user has ended
\* without a credential: none is stored, or the lookup failed
NoCredentialFound ==
  /\ session # NoUser
  /\ storedKey[session] = NoKey \/ (gatePc = "failed" /\ gateUser = session)

\* C22: credential setup is on screen only for a signed-in user for whom no
\* stored credential was found, and once the checks are over such a user sees
\* credential setup and not the chat.
C22_SetupOnlyWithoutCredential ==
  rev = "TA" =>
    /\ Screen = "setup" => NoCredentialFound
    /\ (Screen \in {"setup", "chat"} /\ session # NoUser /\ storedKey[session] = NoKey)
         => Screen = "setup"

\* a step of handleSubmit of TaxAssistant.tsx that sends a generative request
SendsRequest ==
  /\ rev = "TA"
  /\ HandleSubmit \/ Classified
  /\ hpc' \in {"classify", "fields", "reply"}

\* C23: every generative request sent from the conversation carries a key that
\* is set and is the credential stored for the user signed in at that moment.
C23_RequestsCarryStoredKey ==
  [][ SendsRequest =>
        /\ route'.key # NoKey
        /\ session # NoUser
        /\ route'.key = storedKey[session] ]_vars

\* C24: when the answer to the last question of the conversational wizard is
\* submitted, the document request is built from the value of every field of
\* the run, the value just entered included.
C24_PromptHoldsAllValues ==
  [][ (rev = "DG" /\ HandleSubmitDG /\ hpc' = "docgen") =>
        \A i \in 1..Len(formFields) :
          w'.data[formFields[i].id] = formData'[formFields[i].id] ]_vars

\* a step of a running saveApiKey
SaveApiKeyStep ==
  SaveApiKeySession \/ SaveApiKeyValidate \/ ValidateRetry \/ SaveApiKeyUpsert

\* C25: the stored credential, the cached credential and the completion of
\* the setup change only in the step of saveApiKey that follows a found
\* session and an accepted validation of the trimmed key, and then the key is
\* stored for the session's user, cached, and the setup completed; a
\* saveApiKey that ends otherwise stores and caches nothing, shows an error
\* and is not completed; in both cases the generating flag is false again.
C25_SaveApiKeyAllOrNothing ==
  [][ SaveApiKeyStep =>
      /\ (storedKey' # storedKey \/ windowKey' # windowKey \/ hasApiKey' # hasApiKey) =>
           /\ setupPc = "upsert"
           /\ setupUser = session
           /\ val.out = "ok"
           /\ trim(setupKey) # <<>>
           /\ storedKey' = [storedKey EXCEPT ![setupUser] = keyOf(trim(setupKey))]
           /\ windowKey' = keyOf(trim(setupKey))
           /\ hasApiKey'
      /\ setupPc' = "idle" =>
           /\ ~generating'
           /\ ~hasApiKey' =>
                /\ setupError'
                /\ storedKey' = storedKey
                /\ windowKey' = windowKey ]_vars

\* a key typed with blanks around it has been validated, stored and cached
C25_Witness ==
  /\ val.out = "ok"
  /\ setupKey # trim(setupKey)
  /\ session # NoUser
  /\ storedKey[session] = "AIzaB"
  /\ windowKey = "AIzaB"
  /\ hasApiKey
  /\ ~generating
  /\ ~setupError

\* C28: validateApiKey sends at most RETRY_ATTEMPTS requests for one key, the
\* second after a delay of 1000 ms and the third after a delay of 2000 ms, only
\* after a retryable failure; a definitive rejection ends the call without a
\* retry, a format failure ends it before any request, and every call returns
C28_ValidationBoundedAndEnds ==
  /\ [](/\ val.sent <= RETRY_ATTEMPTS
        /\ IsPrefix(val.delays, <<INITIAL_RETRY_DELAY, 2 * INITIAL_RETRY_DELAY>>)
        /\ val.sent > 0 => Len(val.delays) \in {val.sent - 1, val.sent}
        /\ (val.sent > 0 /\ Len(val.delays) = val.sent) =>
              setupPc = "sleep" /\ val.out \in Retryable
        /\ val.out \in Definitive => setupPc = "idle" /\ Len(val.delays) = val.sent - 1
        /\ val.out \in {"empty", "prefix", "short"} => val.sent = 0 /\ setupPc = "idle"
        /\ (val.out \in Retryable /\ setupPc = "idle") => val.sent = RETRY_ATTEMPTS)
  /\ (setupPc \in {"validate", "sleep"}) ~> (setupPc \in {"upsert", "idle"})

\* three requests were sent, after delays of one and two seconds, and the call
\* has returned with the failure of the last one
C28_Witness ==
  /\ val.sent = RETRY_ATTEMPTS
  /\ val.delays = <<1000, 2000>>
  /\ val.out = "timeout"
  /\ setupPc = "idle"
  /\ setupError

\* the reply of the exchange in flight is put on screen by this step
ReplyLands == hpc \in {"reply", "typing"} /\ hpc' = "save"

\* C26: when the reply of an exchange is put on screen, the conversation on
\* screen is still the one in which its user message was submitted: the same
\* conversation id, with that user message in the transcript
C26_LateReplyStaysHome ==
  [][ (rev \in {"TA", "DG"} /\ ReplyLands) =>
        /\ currentChatId = h.chatId
        /\ \E i \in DOMAIN messages : messages[i].id = h.uid ]_vars

\* handleDocumentRequest opens the wizard in this step
WizardOpens == rev \in {"TA", "P2"} /\ hpc = "fields" /\ hpc' # "fields" /\ showForm'

\* C27: when handleDocumentRequest opens the wizard its state is fresh: the
\* first page, no value entered and no error shown; so the page shown is one
\* of the pages of the new field list
C27_WizardOpensFresh ==
  [][ WizardOpens =>
        /\ formStep' = 0
        /\ formData' = NoData
        /\ formErrors' = {}
        /\ Len(formFields') >= 1 => formStep' \in 0..lastStep(formFields') ]_vars

\* C29: the admin route shows its content only to a session whose e-mail ends
\* with @finaccosolutions.com; without a session it shows the sign-in form and
\* with another session it redirects
C29_AdminContentOnlyForAdmins ==
  /\ AdminScreen = "content" => isAdminSession(session)
  /\ (AdminScreen \in {"auth", "redirect", "content"} /\ session = NoUser) =>
        AdminScreen = "auth"

\* C30: the loading flag of the Auth form, once set by a submission, becomes
\* false again (the form being taken off the screen also ends it)
C30_LoadingEnds == au.loading ~> ~au.loading

====
